---- MODULE Spec2Model ----
(***************************************************************************)
(* Manim educational-animation API: the /generate request handler          *)
(* (src/app.py generate_animation), the background pipeline                *)
(* (src/app.py generate_video_background) and the persistence service      *)
(* (src/services/database_service.py) they write through.                  *)
(*                                                                         *)
(* Values are kept comparable: identifiers, URLs, prompts and messages are *)
(* sequences (None is the empty sequence), so that an identifier of one    *)
(* space is never equal to one of another.                                 *)
(***************************************************************************)
EXTENDS Integers, Sequences, FiniteSets, TLC

\* ------------------------------------------------------------------ bounds

\* How many POST /generate requests arrive.
MaxRequests == 1

Reqs == 1 .. MaxRequests

\* ------------------------------------------------------------- plain values

None == <<>>

\* generate_animation_id(): a fresh uuid4 per request.
generate_animation_id(r) == <<"anim", r>>

\* The id the database assigns to the n-th inserted videos row.
DbUuid(n) == <<"db", n>>

\* f"[{current_time}] {request.prompt}"
timestamped_prompt(p) == <<"[", "ts", "]", " ">> \o p

\* Status messages written by the handler and the pipeline.
MSG_STARTED == <<"start generating video">>
MSG_INVALID == <<"prompt validation failed">>
MSG_SCRIPT == <<"start generating script">>
MSG_RENDER == <<"start generating animation">>
MSG_AUDIO == <<"start generating audio">>
MSG_DONE == <<"done">>

\* A failure status that leaves the exception text out.
failure_status_generic(e) == <<"generation failed">>

\* f"❌ 生成失败：{str(e)}"
failure_status(e) == <<"generation failed:">> \o e

\* Exception texts (str(e)) of the steps that can raise.
ERR_CLIENT == <<"ANTHROPIC_API_KEY not set">>
ERR_SCRIPT == <<"Failed to generate working script after 3 attempts">>
ERR_RENDER == <<"Failed to execute Manim script:", "Manim execution failed">>
ERR_FIX == <<"Failed to fix script">>
ERR_TIMING_INFO == <<"'start_time'">>
ERR_SYNC_AUDIO == <<"Failed to create synchronized audio">>
ERR_NARRATION == <<"Failed to extract narration">>
ERR_TTS == <<"Failed to generate TTS audio">>
ERR_SUBTITLES == <<"Failed to add subtitles">>
ERR_ADJUST == <<"Failed to adjust audio duration">>
ERR_COMBINE == <<"Failed to combine audio and video:", "FFmpeg failed">>
ERR_MOVE == <<"shutil.move failed">>
ERR_UPLOAD == <<"Failed to upload video to storage">>
ERR_REMOVE == <<"os.remove failed">>

\* needle occurs in hay as a contiguous run (Python: needle in hay).
Contains(hay, needle) ==
    \E i \in 0 .. (Len(hay) - Len(needle)) :
        \A j \in 1 .. Len(needle) : hay[i + j] = needle[j]

\* -------------------------------------------------------- validate_prompt

Whitespace == {" ", "\t", "\n"}

\* str.lower() on the characters the inputs use.
LowerChar(c) ==
    CASE c = "H" -> "h"
      [] c = "A" -> "a"
      [] c = "C" -> "c"
      [] c = "K" -> "k"
      [] c = "P" -> "p"
      [] c = "B" -> "b"
      [] c = "E" -> "e"
      [] c = "R" -> "r"
      [] c = "T" -> "t"
      [] c = "U" -> "u"
      [] OTHER -> c

lower(s) == [i \in 1 .. Len(s) |-> LowerChar(s[i])]

RECURSIVE lstrip(_)
lstrip(s) ==
    IF s # <<>> /\ Head(s) \in Whitespace THEN lstrip(Tail(s)) ELSE s

RECURSIVE rstrip(_)
rstrip(s) ==
    IF s # <<>> /\ s[Len(s)] \in Whitespace
    THEN rstrip(SubSeq(s, 1, Len(s) - 1))
    ELSE s

strip(s) == rstrip(lstrip(s))

problematic_keywords ==
    { <<"h", "a", "c", "k">>,
      <<"e", "x", "p", "l", "o", "i", "t">>,
      <<"m", "a", "l", "i", "c", "i", "o", "u", "s">>,
      <<"v", "i", "r", "u", "s">> }

\* A validate_prompt that forgets to lower-case the prompt.
validate_prompt_case_sensitive(prompt) ==
    /\ strip(prompt) # <<>>
    /\ Len(strip(prompt)) >= 3
    /\ \A k \in problematic_keywords : ~Contains(prompt, k)

validate_prompt(prompt) ==
    /\ strip(prompt) # <<>>
    /\ Len(strip(prompt)) >= 3
    /\ \A k \in problematic_keywords : ~Contains(lower(prompt), k)

\* ------------------------------------------------------------ request inputs

PROMPT_VALID == <<"p", "i", " ", "r", "2">>
PROMPT_EMPTY == <<>>
PROMPT_BLANK == <<" ", "\t", " ">>
PROMPT_SHORT == <<" ", "a", "b", " ">>
PROMPT_HACK == <<"a", " ", "H", "a", "C", "k">>
PROMPT_VIRUS == <<"v", "i", "r", "u", "s", "e", "s">>

Prompts ==
    { PROMPT_VALID, PROMPT_EMPTY, PROMPT_BLANK, PROMPT_SHORT, PROMPT_HACK,
      PROMPT_VIRUS }

SyncMethods == { "timing_analysis", "subtitle_overlay", "narration_first" }

\* current_user as optional_auth hands it over: None or an identified user.
Users == { None, <<"user@example.com">> }

\* AnimationRequest values (with the current_user of the request) the handler
\* is driven with.
RequestInputs ==
    [ prompt : Prompts, include_audio : BOOLEAN, sync_method : SyncMethods,
      current_user : Users ]

NoRequest ==
    [ prompt |-> None, include_audio |-> FALSE, sync_method |-> "" ]

\* --------------------------------------------------------- DatabaseService

\* Rows of the videos table whose video_id column equals video_id.
VideoRows(vs, video_id) == { i \in DOMAIN vs : vs[i].video_id = video_id }

\* Rows of the status table whose video_uuid column equals db_uuid.
StatusRows(st, db_uuid) == { i \in DOMAIN st : st[i].video_uuid = db_uuid }

create_video_record(vs, video_id, prompt, user_name) ==
    Append(vs, [ id |-> DbUuid(Len(vs) + 1),
                 video_id |-> video_id,
                 video_url |-> None,
                 prompt |-> prompt,
                 user_name |-> user_name ])

\* An update_video_url that filters on the id column, not on video_id.
update_video_url_by_id(vs, video_id, video_url) ==
    [ i \in DOMAIN vs |->
        IF vs[i].id = video_id
        THEN [ vs[i] EXCEPT !.video_url = video_url ]
        ELSE vs[i] ]

update_video_url(vs, video_id, video_url) ==
    [ i \in DOMAIN vs |->
        IF vs[i].video_id = video_id
        THEN [ vs[i] EXCEPT !.video_url = video_url ]
        ELSE vs[i] ]

\* A create_status_record that ignores its step argument.
create_status_record_step0(st, db_uuid, initial_status, step, prompt) ==
    Append(st, [ video_uuid |-> db_uuid,
                 build_status |-> initial_status,
                 step |-> 0,
                 prompt |-> prompt ])

create_status_record(st, db_uuid, initial_status, step, prompt) ==
    Append(st, [ video_uuid |-> db_uuid,
                 build_status |-> initial_status,
                 step |-> step,
                 prompt |-> prompt ])

\* An add_step_status that leaves step out of the inserted data, so that the
\* column default (1) is stored.
add_step_status_default_step(st, db_uuid, step, status_message, prompt) ==
    Append(st, [ video_uuid |-> db_uuid,
                 build_status |-> status_message,
                 step |-> 1,
                 prompt |-> prompt ])

add_step_status(st, db_uuid, step, status_message, prompt) ==
    Append(st, [ video_uuid |-> db_uuid,
                 build_status |-> status_message,
                 step |-> step,
                 prompt |-> prompt ])

\* An update_build_status that replaces the rows of db_uuid by one new row.
update_build_status_replace(st, db_uuid, status_message) ==
    Append(SelectSeq(st, LAMBDA row : row.video_uuid # db_uuid),
           [ video_uuid |-> db_uuid,
             build_status |-> status_message,
             step |-> 0,
             prompt |-> None ])

update_build_status(st, db_uuid, status_message) ==
    [ i \in DOMAIN st |->
        IF st[i].video_uuid = db_uuid
        THEN [ st[i] EXCEPT !.build_status = status_message ]
        ELSE st[i] ]

\* ------------------------------------------------------------------- state

VARIABLES
    videos,     \* the videos table, in insertion order
    status,     \* the status table, in insertion order
    req,        \* req[r]: the AnimationRequest of request r
    user,       \* user[r]: current_user of request r
    hpc,        \* hpc[r]: where generate_animation is for request r
    db_uuid,    \* db_uuid[r]: create_video_record's result (None: failed)
    resp,       \* resp[r]: the HTTP response of request r
    tasks,      \* asyncio.create_task calls, in order
    ppc,        \* ppc[r]: where generate_video_background is for request r
    files,      \* files[r]: local artifacts named after animation id r
    video_url,  \* video_url[r]: upload_video_to_supabase's result
    bucket,     \* the video ids whose file the storage bucket holds
    err,        \* err[r]: str(e) of the exception the pipeline caught
    calls,      \* calls[r]: the calls made for request r, with outcomes
    status_resp, \* the last response of GET /video/{video_id}/status
    gen,        \* the locals of one generate_and_refine_manim_script call
    layout,     \* a script on its way through the optimizer and the linter
    mux,        \* one combine_audio_video call
    audio,      \* one create_synchronized_audio call
    auth,       \* one request on its way through the auth dependencies
    db,         \* a videos table with the identifiers its database assigned
    timing,     \* one timing extraction followed by one timed narration
    pair        \* two pipelines of different generations, side by side

\* The state of the endpoints and services next to the generation pipeline.
unitVars ==
    << status_resp, gen, layout, mux, audio, auth, db, timing, pair >>

\* The state of POST /generate and of the pipelines it schedules.
appVars ==
    << videos, status, req, user, hpc, db_uuid, resp, tasks, ppc,
       files, video_url, bucket, err, calls >>

vars == << appVars, unitVars >>

NoResponse ==
    [ code |-> 0, video_id |-> None, video_url |-> "", status |-> "" ]

\* HTTPException(status_code=code)
HttpError(code) ==
    [ code |-> code, video_id |-> None, video_url |-> "", status |-> "error" ]

\* AnimationResponse(video_id=animation_id, video_url="", status="processing")
AnimationResponse(animation_id) ==
    [ code |-> 200, video_id |-> animation_id, video_url |-> "",
      status |-> "processing" ]

\* No GET /video/{video_id}/status has been answered yet.
NoStatusResponse == [ asked |-> None, code |-> 0 ]

Call(op, step, ok) == [ op |-> op, step |-> step, ok |-> ok ]

\* The outcomes of a database call: the write is stored, or the backend
\* returns an empty response or raises inside the service, which logs it and
\* returns None / False.
DbOutcomes == BOOLEAN

Init ==
    /\ videos = <<>>
    /\ status = <<>>
    /\ req = [ r \in Reqs |-> NoRequest ]
    /\ user = [ r \in Reqs |-> None ]
    /\ hpc = [ r \in Reqs |-> "idle" ]
    /\ db_uuid = [ r \in Reqs |-> None ]
    /\ resp = [ r \in Reqs |-> NoResponse ]
    /\ tasks = <<>>
    /\ ppc = [ r \in Reqs |-> "none" ]
    /\ files = [ r \in Reqs |-> {} ]
    /\ video_url = [ r \in Reqs |-> None ]
    /\ bucket = {}
    /\ err = [ r \in Reqs |-> None ]
    /\ calls = [ r \in Reqs |-> <<>> ]
    /\ status_resp = NoStatusResponse
    /\ gen = [ pc |-> "idle" ]
    /\ layout = [ pc |-> "idle" ]
    /\ mux = [ pc |-> "idle" ]
    /\ audio = [ pc |-> "idle" ]
    /\ auth = [ pc |-> "idle" ]
    /\ db = [ rows |-> <<>>, listed |-> <<>> ]
    /\ timing = [ pc |-> "idle" ]
    /\ pair = [ pc |-> "idle" ]

pipeVars == << ppc, files, video_url, bucket, err >>

\* ------------------------------------------------- POST /generate handler

\* current_user.get('email', current_user.get('user_id')) if current_user
user_name_of(current_user) == current_user

\* Lines 207-229: a request arrives, an animation id is generated and the
\* VideoRecord is inserted; an absent result ends the request with a 500.
GenerateCreateVideo(r) ==
    /\ hpc[r] = "idle"
    /\ \E input \in RequestInputs, ok \in DbOutcomes :
        /\ req' = [ req EXCEPT
                      ![r] = [ prompt |-> input.prompt,
                               include_audio |-> input.include_audio,
                               sync_method |-> input.sync_method ] ]
        /\ user' = [ user EXCEPT ![r] = input.current_user ]
        /\ calls' = [ calls EXCEPT
                        ![r] = Append(@, Call("create_video_record", 0, ok)) ]
        /\ IF ok
           THEN /\ videos' = create_video_record(
                                videos, generate_animation_id(r),
                                timestamped_prompt(input.prompt),
                                user_name_of(input.current_user))
                /\ db_uuid' = [ db_uuid EXCEPT ![r] = DbUuid(Len(videos) + 1) ]
                /\ hpc' = [ hpc EXCEPT ![r] = "create_status" ]
                /\ resp' = resp
           ELSE /\ hpc' = [ hpc EXCEPT ![r] = "returned" ]
                /\ resp' = [ resp EXCEPT ![r] = HttpError(500) ]
                /\ UNCHANGED << videos, db_uuid >>
    /\ UNCHANGED << status, tasks, pipeVars >>
    /\ UNCHANGED unitVars

\* Lines 230-232: the first StatusRecord; create_status_record's result is
\* not looked at, and the service never raises.
GenerateCreateStatus(r) ==
    /\ hpc[r] = "create_status"
    /\ \E ok \in DbOutcomes :
        /\ calls' = [ calls EXCEPT
                        ![r] = Append(@, Call("create_status_record", 1, ok)) ]
        /\ status' = IF ok
                     THEN create_status_record(
                              status, db_uuid[r], MSG_STARTED, 1,
                              timestamped_prompt(req[r].prompt))
                     ELSE status
    /\ hpc' = [ hpc EXCEPT ![r] = "validate" ]
    /\ UNCHANGED << videos, req, user, db_uuid, resp, tasks, pipeVars >>
    /\ UNCHANGED unitVars

\* asyncio.create_task(generate_video_background(request, animation_id,
\* db_uuid, timestamped_prompt))
create_task(ts, animation_id, uuid) ==
    Append(ts, [ animation_id |-> animation_id, db_uuid |-> uuid ])

\* Lines 241-243: an invalid prompt is annotated on the status rows and
\* answered with a 400.
GenerateReject(r) ==
    /\ hpc[r] = "validate"
    /\ ~validate_prompt(req[r].prompt)
    /\ \E ok \in DbOutcomes :
        /\ calls' = [ calls EXCEPT
                        ![r] = Append(@, Call("update_build_status", 0,
                                  ok /\ StatusRows(status, db_uuid[r]) # {})) ]
        /\ status' = IF ok
                     THEN update_build_status(status, db_uuid[r], MSG_INVALID)
                     ELSE status
    /\ hpc' = [ hpc EXCEPT ![r] = "returned" ]
    /\ resp' = [ resp EXCEPT ![r] = HttpError(400) ]
    /\ UNCHANGED << videos, req, user, db_uuid, tasks, pipeVars >>
    /\ UNCHANGED unitVars

\* Lines 241-246: a valid prompt schedules the pipeline.
GenerateSchedule(r) ==
    /\ hpc[r] = "validate"
    /\ validate_prompt(req[r].prompt)
    /\ tasks' = create_task(tasks, generate_animation_id(r), db_uuid[r])
    /\ ppc' = [ ppc EXCEPT ![r] = "scheduled" ]
    /\ hpc' = [ hpc EXCEPT ![r] = "scheduled" ]
    /\ UNCHANGED << videos, status, req, user, db_uuid, resp,
                    files, video_url, bucket, err, calls >>
    /\ UNCHANGED unitVars

\* Lines 249-254: the response, returned without awaiting the task.
GenerateRespond(r) ==
    /\ hpc[r] = "scheduled"
    /\ hpc' = [ hpc EXCEPT ![r] = "returned" ]
    /\ resp' = [ resp EXCEPT ![r] = AnimationResponse(generate_animation_id(r)) ]
    /\ UNCHANGED << videos, status, req, user, db_uuid, tasks,
                    pipeVars, calls >>
    /\ UNCHANGED unitVars

\* ------------------------------------------------ the cooperative scheduler

\* asyncio.create_task only schedules: nothing else runs on the event loop
\* until the handler that called it returns (lines 246-254 hold no await).
PipelineMayRun_yielding(r) == TRUE

PipelineMayRun(r) == \A q \in Reqs : hpc[q] # "scheduled"

HandlerMayRun(r) == \A q \in Reqs \ {r} : hpc[q] # "scheduled"

\* ------------------------------------------- generate_video_background

request_vars == << videos, req, user, hpc, db_uuid, resp, tasks, bucket >>

Log(r, entries) == calls' = [ calls EXCEPT ![r] = @ \o entries ]

Goto(r, pc) == ppc' = [ ppc EXCEPT ![r] = pc ]

\* An exception leaves the try block for the handler at line 428.
Raise(r, e) ==
    /\ ppc' = [ ppc EXCEPT ![r] = "except" ]
    /\ err' = [ err EXCEPT ![r] = e ]

\* await db_service.add_step_status(db_uuid, step, message, prompt): the
\* result is not looked at.
StepStatus(r, step, message) ==
    \E ok \in DbOutcomes :
        /\ Log(r, << Call("add_step_status", step, ok) >>)
        /\ status' = IF ok
                     THEN add_step_status(status, db_uuid[r], step, message,
                              timestamped_prompt(req[r].prompt))
                     ELSE status

\* Line 271: status step 2.
BgStep2(r) ==
    /\ ppc[r] = "scheduled"
    /\ PipelineMayRun(r)
    /\ StepStatus(r, 2, MSG_SCRIPT)
    /\ Goto(r, "prepare")
    /\ UNCHANGED << request_vars, files, video_url, err >>
    /\ UNCHANGED unitVars

\* Lines 273-282: the model client, language detection and the duration
\* estimate (both fall back instead of raising); only a missing API key
\* raises.
BgPrepare(r) ==
    /\ ppc[r] = "prepare"
    /\ PipelineMayRun(r)
    /\ \/ /\ Log(r, << Call("detect_language", 0, TRUE) >>
                    \o IF req[r].include_audio
                       THEN << Call("estimate_narration_duration", 0, TRUE) >>
                       ELSE << >>)
          /\ Goto(r, "script")
          /\ err' = err
       \/ /\ Log(r, << Call("get_anthropic_client", 0, FALSE) >>)
          /\ Raise(r, ERR_CLIENT)
    /\ UNCHANGED << request_vars, status, files, video_url >>
    /\ UNCHANGED unitVars

\* Lines 284-294: generate-and-refine, then the scratch script is written.
BgGenerateScript(r) ==
    /\ ppc[r] = "script"
    /\ PipelineMayRun(r)
    /\ \/ /\ Log(r, << Call("generate_and_refine_manim_script", 0, TRUE) >>)
          /\ files' = [ files EXCEPT ![r] = @ \cup {"script"} ]
          /\ Goto(r, "step3")
          /\ err' = err
       \/ /\ Log(r, << Call("generate_and_refine_manim_script", 0, FALSE) >>)
          /\ Raise(r, ERR_SCRIPT)
          /\ files' = files
    /\ UNCHANGED << request_vars, status, video_url >>
    /\ UNCHANGED unitVars

\* Line 298: status step 3.
BgStep3(r) ==
    /\ ppc[r] = "step3"
    /\ PipelineMayRun(r)
    /\ StepStatus(r, 3, MSG_RENDER)
    /\ Goto(r, "render")
    /\ UNCHANGED << request_vars, files, video_url, err >>
    /\ UNCHANGED unitVars

\* A pipeline that goes from the render straight to the upload.
AfterRender_upload(r) == "upload"

\* Where the pipeline goes once a render succeeded (lines 321-388).
AfterRender(r) == IF req[r].include_audio THEN "step4" ELSE "move"

\* Lines 300-305: the first render; a failure is kept for the point-fix.
BgRender(r) ==
    /\ ppc[r] = "render"
    /\ PipelineMayRun(r)
    /\ files' = [ files EXCEPT ![r] = @ \cup {"render_dir"} ]
    /\ \/ /\ Log(r, << Call("execute_manim_script", 0, TRUE) >>)
          /\ Goto(r, AfterRender(r))
          /\ err' = err
       \/ /\ Log(r, << Call("execute_manim_script", 0, FALSE) >>)
          /\ Goto(r, "fix")
          /\ err' = [ err EXCEPT ![r] = ERR_RENDER ]
    /\ UNCHANGED << request_vars, status, video_url >>
    /\ UNCHANGED unitVars

\* Lines 309-314: one point-fix from the renderer's error text; the fixed
\* script overwrites the scratch script.
BgFix(r) ==
    /\ ppc[r] = "fix"
    /\ PipelineMayRun(r)
    /\ \/ /\ Log(r, << Call("fix_manim_script_from_error", 0, TRUE) >>)
          /\ Goto(r, "retry")
          /\ err' = [ err EXCEPT ![r] = None ]
       \/ /\ Log(r, << Call("fix_manim_script_from_error", 0, FALSE) >>)
          /\ Raise(r, ERR_FIX)
    /\ UNCHANGED << request_vars, status, files, video_url >>
    /\ UNCHANGED unitVars

\* A retry that waits on a render that never ends.
BgRetryRender_unending(r) ==
    /\ ppc[r] = "retry"
    /\ PipelineMayRun(r)
    /\ UNCHANGED vars

\* A retry whose failure goes back to the point-fix.
BgRetryRender_refix(r) ==
    /\ ppc[r] = "retry"
    /\ PipelineMayRun(r)
    /\ \/ /\ Log(r, << Call("execute_manim_script", 0, TRUE) >>)
          /\ Goto(r, AfterRender(r))
          /\ err' = err
       \/ /\ Log(r, << Call("execute_manim_script", 0, FALSE) >>)
          /\ Goto(r, "fix")
          /\ err' = [ err EXCEPT ![r] = ERR_RENDER ]
    /\ UNCHANGED << request_vars, status, files, video_url >>
    /\ UNCHANGED unitVars

\* Line 317: the single retry; its failure leaves the try block.
BgRetryRender(r) ==
    /\ ppc[r] = "retry"
    /\ PipelineMayRun(r)
    /\ \/ /\ Log(r, << Call("execute_manim_script", 0, TRUE) >>)
          /\ Goto(r, AfterRender(r))
          /\ err' = err
       \/ /\ Log(r, << Call("execute_manim_script", 0, FALSE) >>)
          /\ Raise(r, ERR_RENDER)
    /\ UNCHANGED << request_vars, status, files, video_url >>
    /\ UNCHANGED unitVars

\* Lines 322-332: status step 4, then the narration path of sync_method.
BgStep4(r) ==
    /\ ppc[r] = "step4"
    /\ PipelineMayRun(r)
    /\ StepStatus(r, 4, MSG_AUDIO)
    /\ Goto(r, IF req[r].sync_method = "timing_analysis"
               THEN "timing" ELSE "narration")
    /\ UNCHANGED << request_vars, files, video_url, err >>
    /\ UNCHANGED unitVars

\* Lines 329-344: timing extraction falls back instead of raising; timed
\* narration raises on timing segments it cannot read and falls back
\* otherwise; create_synchronized_audio returns the synced track or raises.
BgTimingAnalysis(r) ==
    /\ ppc[r] = "timing"
    /\ PipelineMayRun(r)
    /\ \/ /\ Log(r, << Call("extract_animation_timing", 0, TRUE),
                       Call("generate_timed_narration", 0, FALSE) >>)
          /\ Raise(r, ERR_TIMING_INFO)
          /\ files' = files
       \/ /\ Log(r, << Call("extract_animation_timing", 0, TRUE),
                       Call("generate_timed_narration", 0, TRUE),
                       Call("create_synchronized_audio", 0, TRUE) >>)
          /\ files' = [ files EXCEPT ![r] = @ \cup {"synced_audio"} ]
          /\ Goto(r, "mux")
          /\ err' = err
       \/ /\ Log(r, << Call("extract_animation_timing", 0, TRUE),
                       Call("generate_timed_narration", 0, TRUE),
                       Call("create_synchronized_audio", 0, FALSE) >>)
          /\ Raise(r, ERR_SYNC_AUDIO)
          /\ files' = files
    /\ UNCHANGED << request_vars, status, video_url >>
    /\ UNCHANGED unitVars

\* A narration step after which every sync method goes on to the mux.
BgNarration_always_mux(r) ==
    /\ ppc[r] = "narration"
    /\ PipelineMayRun(r)
    /\ \/ /\ Log(r, << Call("extract_narration_from_script", 0, TRUE),
                       Call("generate_tts_audio", 0, TRUE) >>)
          /\ files' = [ files EXCEPT ![r] = @ \cup {"tts_audio"} ]
          /\ Goto(r, "adjust")
          /\ err' = err
       \/ /\ Log(r, << Call("extract_narration_from_script", 0, FALSE) >>)
          /\ Raise(r, ERR_NARRATION)
          /\ files' = files
       \/ /\ Log(r, << Call("extract_narration_from_script", 0, TRUE),
                       Call("generate_tts_audio", 0, FALSE) >>)
          /\ Raise(r, ERR_TTS)
          /\ files' = files
    /\ UNCHANGED << request_vars, status, video_url >>
    /\ UNCHANGED unitVars

\* Lines 347-352 and 358-363: narration text, then one TTS track.
BgNarration(r) ==
    /\ ppc[r] = "narration"
    /\ PipelineMayRun(r)
    /\ \/ /\ Log(r, << Call("extract_narration_from_script", 0, TRUE),
                       Call("generate_tts_audio", 0, TRUE) >>)
          /\ files' = [ files EXCEPT ![r] = @ \cup {"tts_audio"} ]
          /\ Goto(r, IF req[r].sync_method = "subtitle_overlay"
                     THEN "subtitles" ELSE "adjust")
          /\ err' = err
       \/ /\ Log(r, << Call("extract_narration_from_script", 0, FALSE) >>)
          /\ Raise(r, ERR_NARRATION)
          /\ files' = files
       \/ /\ Log(r, << Call("extract_narration_from_script", 0, TRUE),
                       Call("generate_tts_audio", 0, FALSE) >>)
          /\ Raise(r, ERR_TTS)
          /\ files' = files
    /\ UNCHANGED << request_vars, status, video_url >>
    /\ UNCHANGED unitVars

\* Lines 354-356: subtitle_overlay burns the subtitles into the final video.
BgSubtitles(r) ==
    /\ ppc[r] = "subtitles"
    /\ PipelineMayRun(r)
    /\ \/ /\ Log(r, << Call("add_subtitles_to_video", 0, TRUE) >>)
          /\ files' = [ files EXCEPT ![r] = @ \cup {"final_video"} ]
          /\ Goto(r, "subtitles_again")
          /\ err' = err
       \/ /\ Log(r, << Call("add_subtitles_to_video", 0, FALSE) >>)
          /\ Raise(r, ERR_SUBTITLES)
          /\ files' = files
    /\ UNCHANGED << request_vars, status, video_url >>
    /\ UNCHANGED unitVars

\* Lines 383-385: subtitle_overlay burns the subtitles a second time.
BgSubtitlesAgain(r) ==
    /\ ppc[r] = "subtitles_again"
    /\ PipelineMayRun(r)
    /\ \/ /\ Log(r, << Call("add_subtitles_to_video", 0, TRUE) >>)
          /\ Goto(r, "upload")
          /\ err' = err
       \/ /\ Log(r, << Call("add_subtitles_to_video", 0, FALSE) >>)
          /\ Raise(r, ERR_SUBTITLES)
    /\ UNCHANGED << request_vars, status, files, video_url >>
    /\ UNCHANGED unitVars

\* Lines 365-372: a TTS track more than 2 s off the video is re-timed into
\* the adjusted track and the original removed.
BgAdjust(r) ==
    /\ ppc[r] = "adjust"
    /\ PipelineMayRun(r)
    /\ \/ /\ Log(r, << Call("get_audio_duration", 0, TRUE) >>)
          /\ Goto(r, "mux")
          /\ UNCHANGED << files, err >>
       \/ /\ Log(r, << Call("get_audio_duration", 0, TRUE),
                       Call("adjust_audio_duration", 0, TRUE) >>)
          /\ files' = [ files EXCEPT
                          ![r] = (@ \ {"tts_audio"}) \cup {"adjusted_audio"} ]
          /\ Goto(r, "mux")
          /\ err' = err
       \/ /\ Log(r, << Call("get_audio_duration", 0, TRUE),
                       Call("adjust_audio_duration", 0, FALSE) >>)
          /\ Raise(r, ERR_ADJUST)
          /\ files' = files
    /\ UNCHANGED << request_vars, status, video_url >>
    /\ UNCHANGED unitVars

\* The audio_path local at line 377.
audio_path(fs) ==
    fs \cap (IF "synced_audio" \in fs THEN {"synced_audio"}
             ELSE IF "adjusted_audio" \in fs THEN {"adjusted_audio"}
             ELSE {"tts_audio"})

\* Lines 374-382: the mux, then the temporary audio is removed.
BgCombine(r) ==
    /\ ppc[r] = "mux"
    /\ PipelineMayRun(r)
    /\ \/ /\ Log(r, << Call("combine_audio_video", 0, TRUE) >>)
          /\ files' = [ files EXCEPT
                          ![r] = (@ \ audio_path(@)) \cup {"final_video"} ]
          /\ Goto(r, "upload")
          /\ err' = err
       \/ /\ Log(r, << Call("combine_audio_video", 0, FALSE) >>)
          /\ Raise(r, ERR_COMBINE)
          /\ files' = files
    /\ UNCHANGED << request_vars, status, video_url >>
    /\ UNCHANGED unitVars

\* Lines 386-388: without audio the rendered video is moved to the served
\* directory.
BgMove(r) ==
    /\ ppc[r] = "move"
    /\ PipelineMayRun(r)
    /\ \/ /\ Log(r, << Call("shutil.move", 0, TRUE) >>)
          /\ files' = [ files EXCEPT ![r] = @ \cup {"final_video"} ]
          /\ Goto(r, "upload")
          /\ err' = err
       \/ /\ Log(r, << Call("shutil.move", 0, FALSE) >>)
          /\ Raise(r, ERR_MOVE)
          /\ files' = files
    /\ UNCHANGED << request_vars, status, video_url >>
    /\ UNCHANGED unitVars

\* supabase.storage.from_(bucket).get_public_url(f"{video_id}.mp4")
get_public_url(video_id) == <<"url">> \o video_id

\* The storage backend holds the file once supabase.storage...upload(...)
\* went through (lines 26-50 of supabase_storage.py).
Stored(fs, storage_ok) == "final_video" \in fs /\ storage_ok

\* An upload_video_to_supabase that hands out the public URL without looking
\* at the upload's response.
upload_video_to_supabase_unchecked(fs, video_id, storage_ok) ==
    get_public_url(video_id)

\* upload_video_to_supabase: None when the local file is missing or the
\* storage backend rejects or fails the upload, else the public URL.
upload_video_to_supabase(fs, video_id, storage_ok) ==
    IF Stored(fs, storage_ok)
    THEN get_public_url(video_id)
    ELSE None

\* Lines 395-399: the upload; an absent URL is a pipeline failure.
BgUpload(r) ==
    /\ ppc[r] = "upload"
    /\ PipelineMayRun(r)
    /\ \E storage_ok \in BOOLEAN :
        LET url == upload_video_to_supabase(
                       files[r], generate_animation_id(r), storage_ok)
        IN  /\ Log(r, << Call("upload_video_to_supabase", 0, url # None) >>)
            /\ bucket' = IF Stored(files[r], storage_ok)
                         THEN bucket \cup { generate_animation_id(r) }
                         ELSE bucket
            /\ video_url' = [ video_url EXCEPT ![r] = url ]
            /\ IF url # None
               THEN Goto(r, "update_url") /\ err' = err
               ELSE Raise(r, ERR_UPLOAD)
    /\ UNCHANGED << videos, req, user, hpc, db_uuid, resp, tasks, status,
                    files >>
    /\ UNCHANGED unitVars

\* Line 405: update_video_url(animation_id, video_url); a failed write
\* returns False and is not looked at.
BgUpdateUrl(r) ==
    /\ ppc[r] = "update_url"
    /\ PipelineMayRun(r)
    /\ \E ok \in DbOutcomes :
        /\ Log(r, << Call("update_video_url", 0,
                     ok /\ VideoRows(videos, generate_animation_id(r)) # {}) >>)
        /\ videos' = IF ok
                     THEN update_video_url(
                              videos, generate_animation_id(r), video_url[r])
                     ELSE videos
    /\ Goto(r, "step5")
    /\ UNCHANGED << status, req, user, hpc, db_uuid, resp, tasks, files,
                    video_url, bucket, err >>
    /\ UNCHANGED unitVars

\* Line 406: the completion status, step 5.
BgStep5(r) ==
    /\ ppc[r] = "step5"
    /\ PipelineMayRun(r)
    /\ StepStatus(r, 5, MSG_DONE)
    /\ Goto(r, "cleanup")
    /\ UNCHANGED << request_vars, files, video_url, err >>
    /\ UNCHANGED unitVars

\* Lines 412-426: the served video is removed inside its own try; the
\* scratch script is removed outside one, so its failure reaches line 428.
BgCleanup(r) ==
    /\ ppc[r] = "cleanup"
    /\ PipelineMayRun(r)
    /\ \E removed \in SUBSET {"final_video"} :
        \/ /\ Log(r, << Call("os.remove(script_path)", 0, TRUE) >>)
           /\ files' = [ files EXCEPT ![r] = (@ \ removed) \ {"script"} ]
           /\ Goto(r, "completed")
           /\ err' = err
        \/ /\ Log(r, << Call("os.remove(script_path)", 0, FALSE) >>)
           /\ files' = [ files EXCEPT ![r] = @ \ removed ]
           /\ Raise(r, ERR_REMOVE)
    /\ UNCHANGED << request_vars, status, video_url >>
    /\ UNCHANGED unitVars

\* A cleanup_temp_files whose temp_paths lacks the scratch script.
cleanup_temp_files_keeps_script(fs) ==
    fs \ {"render_dir", "tts_audio", "synced_audio"}

\* cleanup_temp_files(animation_id): the four paths of temp_paths.
cleanup_temp_files(fs) ==
    fs \ {"script", "render_dir", "tts_audio", "synced_audio"}

\* Lines 428-439: the failure is written over the status rows of db_uuid
\* (a failed write is swallowed), the temp files are cleaned, the task ends.
BgExcept(r) ==
    /\ ppc[r] = "except"
    /\ PipelineMayRun(r)
    /\ \E ok \in DbOutcomes :
        /\ Log(r, << Call("update_build_status", 0,
                          ok /\ StatusRows(status, db_uuid[r]) # {}),
                     Call("cleanup_temp_files", 0, TRUE) >>)
        /\ status' = IF ok
                     THEN update_build_status(
                              status, db_uuid[r], failure_status(err[r]))
                     ELSE status
    /\ files' = [ files EXCEPT ![r] = cleanup_temp_files(@) ]
    /\ Goto(r, "failed")
    /\ UNCHANGED << request_vars, video_url, err >>
    /\ UNCHANGED unitVars

generate_animation(r) ==
    /\ HandlerMayRun(r)
    /\ \/ GenerateCreateVideo(r)
       \/ GenerateCreateStatus(r)
       \/ GenerateReject(r)
       \/ GenerateSchedule(r)
       \/ GenerateRespond(r)

generate_video_background(r) ==
    \/ BgStep2(r)
    \/ BgPrepare(r)
    \/ BgGenerateScript(r)
    \/ BgStep3(r)
    \/ BgRender(r)
    \/ BgFix(r)
    \/ BgRetryRender(r)
    \/ BgStep4(r)
    \/ BgTimingAnalysis(r)
    \/ BgNarration(r)
    \/ BgSubtitles(r)
    \/ BgSubtitlesAgain(r)
    \/ BgAdjust(r)
    \/ BgCombine(r)
    \/ BgMove(r)
    \/ BgUpload(r)
    \/ BgUpdateUrl(r)
    \/ BgStep5(r)
    \/ BgCleanup(r)
    \/ BgExcept(r)

Next ==
    \E r \in Reqs :
        \/ generate_animation(r)
        \/ generate_video_background(r)

Spec == Init /\ [][Next]_vars

\* Every handler and every scheduled task is run by the event loop, and
\* every call it awaits returns or fails.
SpecLive ==
    /\ Spec
    /\ \A r \in Reqs : /\ WF_vars(generate_animation(r))
                       /\ WF_vars(generate_video_background(r))

\* --------------------------------------- GET /video/{video_id}/status

\* The external ids a status request is made with: those /generate hands
\* out, and one it never handed out.
UNKNOWN_VIDEO_ID == <<"anim", 0>>

VideoIds == { generate_animation_id(r) : r \in Reqs } \cup { UNKNOWN_VIDEO_ID }

\* select('*, status(*)').eq('video_id', video_id): each matching videos row
\* with its status rows embedded.
select_video_with_status(vs, st, video_id) ==
    LET matching == SelectSeq(vs, LAMBDA row : row.video_id = video_id)
    IN  [ i \in DOMAIN matching |->
            [ id |-> matching[i].id,
              video_id |-> matching[i].video_id,
              video_url |-> matching[i].video_url,
              status |-> SelectSeq(st, LAMBDA row :
                                           row.video_uuid = matching[i].id) ] ]

\* get_video_by_video_id: response.data[0], or None (the empty sequence) when
\* nothing matches or the query raises inside the service.
get_video_by_video_id(vs, st, video_id, ok) ==
    IF ok /\ select_video_with_status(vs, st, video_id) # <<>>
    THEN << select_video_with_status(vs, st, video_id)[1] >>
    ELSE None

\* str(HTTPException(status_code=404, detail="Video not found"))
STR_NOT_FOUND == <<"404: Video not found">>

\* The handler at lines 459-460: `except Exception` around the whole body,
\* which also catches the HTTPException raised at line 450.
status_except(video_id, e) ==
    [ asked |-> video_id, code |-> 500,
      detail |-> <<"Failed to get video status:">> \o e ]

\* get_video_status: lines 445-460.
get_video_status(vs, st, video_id, ok) ==
    LET video_with_status == get_video_by_video_id(vs, st, video_id, ok)
    IN  IF video_with_status = None
        THEN status_except(video_id, STR_NOT_FOUND)
        ELSE [ asked |-> video_id, code |-> 200,
               video_id |-> video_id,
               database_id |-> video_with_status[1].id,
               video_url |-> video_with_status[1].video_url,
               status |-> video_with_status[1].status ]

\* One GET /video/{video_id}/status, answered from the tables as they are.
GetVideoStatus ==
    /\ \E video_id \in VideoIds, ok \in DbOutcomes :
           status_resp' = get_video_status(videos, status, video_id, ok)
    /\ UNCHANGED << appVars, gen, layout, mux, audio, auth, db,
                    timing, pair >>

\* /generate, its pipelines, and status requests at any moment.
SpecStatus == Init /\ [][Next \/ GetVideoStatus]_vars

\* ------------------------------------------ GET /videos/user/{user_name}

\* The most VideoRecords of the table.
MaxVideos == 3

RECURSIVE order_by_id_desc(_)
\* .order('id', desc=True): the rows by falling database identifier.
order_by_id_desc(rows) ==
    IF rows = <<>> THEN <<>>
    ELSE LET rest == order_by_id_desc(Tail(rows))
             above == SelectSeq(rest, LAMBDA x : x.id[2] > rows[1].id[2])
             below == SelectSeq(rest, LAMBDA x : x.id[2] < rows[1].id[2])
         IN  above \o << rows[1] >> \o below

\* Lines 193-208: the rows of the user by falling id; an exception of the
\* backend is logged and the empty list returned.
get_videos_by_user(vs, user_name, ok) ==
    IF ok
    THEN order_by_id_desc(SelectSeq(vs, LAMBDA row :
                                          row.user_name = user_name))
    ELSE <<>>

\* create_video_record on a table whose database assigns each row an
\* identifier (a UUID) of its own choosing, distinct from those in use.
CreateVideoRecord ==
    /\ Len(db.rows) < MaxVideos
    /\ \E id \in 1 .. MaxVideos, user_name \in Users :
        /\ \A i \in DOMAIN db.rows : db.rows[i].id # DbUuid(id)
        /\ LET made == create_video_record(
                           db.rows, generate_animation_id(Len(db.rows) + 1),
                           timestamped_prompt(PROMPT_VALID), user_name)
           IN  db' = [ db EXCEPT
                         !.rows = [ made EXCEPT ![Len(made)].id = DbUuid(id) ] ]
    /\ UNCHANGED << appVars, status_resp, gen, layout, mux, audio, auth,
                    timing, pair >>

\* app.py lines 479-494: list_user_videos on the table as it is.
ListUserVideos ==
    /\ \E user_name \in Users \ { None }, ok \in DbOutcomes :
           db' = [ db EXCEPT
                     !.listed = << [ user_name |-> user_name, ok |-> ok,
                                     table |-> db.rows,
                                     videos |-> get_videos_by_user(
                                                  db.rows, user_name, ok) ] >> ]
    /\ UNCHANGED << appVars, status_resp, gen, layout, mux, audio, auth,
                    timing, pair >>

\* The listing of a user's videos over the tables the database can hold.
SpecVideos == Init /\ [][CreateVideoRecord \/ ListUserVideos]_vars

\* ------------------------------------- generate_and_refine_manim_script

\* The largest max_attempts the generator is called with (the pipeline
\* passes 3, the default is 5).
MaxAttempts == 5

\* What one model call (generate_manim_script on attempt 0, else
\* refine_manim_script) can raise, as the words its handlers look for.
model_error(attempt, kind) ==
    LET failed == IF attempt = 0 THEN "Failed to generate script"
                  ELSE "Failed to refine script"
    IN  CASE kind = "overloaded" ->
                << "Claude API temporarily", "overloaded", "529" >>
          [] kind = "bad_request" ->
                << failed, "with Claude", "Bad Request", "messages" >>
          [] kind = "bad_request_other" ->
                << failed, "with Claude", "Bad Request" >>
          [] kind = "bad_request_529" ->
                << failed, "with Claude", "Bad Request", "messages",
                   "529" >>
          [] OTHER -> << failed, "with Claude", "API Error" >>

\* What test_manim_script can answer: {"success": ..., "error": ...}.
TestResults ==
    { [ success |-> TRUE, error |-> None ],
      [ success |-> FALSE, error |-> << "Syntax error:", "invalid syntax" >> ],
      [ success |-> FALSE,
        error |-> << "Validation error:", "geometry framing" >> ],
      [ success |-> FALSE,
        error |-> << "Layout issues:", "Large coordinate found" >> ] }

\* Line 136 (an error message is given) and line 138 (none is).
exhausted(max_attempts, error_message) ==
    << "Failed to generate working script after", ToString(max_attempts),
       "attempts" >> \o error_message

\* An auto-fix branch that returns the script it started from.
auto_fix_return_original(script, auto_fixed_script) == script

\* Line 94: the auto-fix branch returns the script it tested.
auto_fix_return(script, auto_fixed_script) == auto_fixed_script

\* A loop in which an overloaded model does not use up an attempt.
next_attempt_unless_overloaded(g, history, last_failure) ==
    IF Contains(lower(last_failure), << "overloaded" >>)
    THEN [ g EXCEPT !.history = history, !.last_failure = last_failure ]
    ELSE IF g.attempt + 1 < g.max_attempts
    THEN [ g EXCEPT !.attempt = @ + 1, !.history = history,
                    !.last_failure = last_failure ]
    ELSE [ g EXCEPT !.pc = "raised", !.history = history,
                    !.last_failure = last_failure,
                    !.error = exhausted(g.max_attempts, <<>>) ]

\* Leaving the loop body of attempt g.attempt without a return or a raise:
\* the next attempt, or line 138 after the last one.
next_attempt(g, history, last_failure) ==
    IF g.attempt + 1 < g.max_attempts
    THEN [ g EXCEPT !.attempt = @ + 1, !.history = history,
                    !.last_failure = last_failure ]
    ELSE [ g EXCEPT !.pc = "raised", !.history = history,
                    !.last_failure = last_failure,
                    !.error = exhausted(g.max_attempts, <<>>) ]

\* An auto-fix tried on every attempt.
auto_fix_due_always(attempt, max_attempts, error) ==
    Contains(lower(error), << "geometry framing" >>)

\* Line 86: the auto-fix is for the last two attempts and a failure that
\* names geometry framing.
auto_fix_due(attempt, max_attempts, error) ==
    /\ attempt >= max_attempts - 2
    /\ Contains(lower(error), << "geometry framing" >>)

\* A backoff without its cap.
wait_time_uncapped(attempt) == 2 ^ attempt

\* Line 114: wait_time = min(2 ** attempt, 10).
wait_time(attempt) == IF 2 ^ attempt < 10 THEN 2 ^ attempt ELSE 10

\* Lines 64-65: a call with max_attempts, before its first attempt.
GenCall ==
    /\ gen.pc = "idle"
    /\ \E max_attempts \in 1 .. MaxAttempts :
           gen' = [ pc |-> "attempt", max_attempts |-> max_attempts,
                    attempt |-> 0, history |-> <<>>, tested |-> {},
                    last_failure |-> None, result |-> None, error |-> None,
                    log |-> <<>> ]
    /\ UNCHANGED << appVars, status_resp, layout, mux, audio, auth, db,
                    timing, pair >>

\* Lines 68-80: the model call succeeds (generate_manim_script, which
\* optimizes its script, on attempt 0 and refine_manim_script, which does
\* not, later) and the script passes its test.
GenTestPasses ==
    /\ gen.pc = "attempt"
    /\ LET script == << "script", gen.attempt >>
           ev(op, ok) == [ op |-> op, attempt |-> gen.attempt, ok |-> ok,
                           arg |-> <<>> ]
       IN  gen' = [ gen EXCEPT
                      !.pc = "returned",
                      !.tested = @ \cup { << script, TRUE >> },
                      !.result = script,
                      !.log = @ \o
                          ( IF gen.attempt = 0
                            THEN << ev("generate_manim_script", TRUE),
                                    ev("optimize_script", TRUE) >>
                            ELSE << ev("refine_manim_script", TRUE) >> )
                          \o << ev("test_manim_script", TRUE) >> ]
    /\ UNCHANGED << appVars, status_resp, layout, mux, audio, auth, db,
                    timing, pair >>

\* Lines 81-105: the script fails its test; on the last two attempts a
\* failure naming "geometry framing" has the script auto-fixed and, when
\* that changed it, the auto-fixed script tested too.
GenTestFails ==
    /\ gen.pc = "attempt"
    /\ \E test_result \in { t \in TestResults : ~t.success },
          changed \in BOOLEAN, auto_test_result \in TestResults :
        LET script == << "script", gen.attempt >>
            auto_fixed_script == IF changed
                                 THEN << "auto_fixed", gen.attempt >>
                                 ELSE script
            due == auto_fix_due(gen.attempt, gen.max_attempts,
                                test_result.error)
            auto == due /\ auto_fixed_script # script
            tested == gen.tested \cup { << script, FALSE >> } \cup
                      IF auto
                      THEN { << auto_fixed_script, auto_test_result.success >> }
                      ELSE {}
            ev(op, ok, arg) == [ op |-> op, attempt |-> gen.attempt,
                                 ok |-> ok, arg |-> arg ]
            log == gen.log \o
                   ( IF gen.attempt = 0
                     THEN << ev("generate_manim_script", TRUE, <<>>),
                             ev("optimize_script", TRUE, <<>>) >>
                     ELSE << ev("refine_manim_script", TRUE, <<>>) >> )
                   \o << ev("test_manim_script", FALSE, test_result.error) >>
                   \o ( IF due
                        THEN << ev("auto_fix_large_coordinates", changed,
                                   <<>>) >>
                        ELSE <<>> )
                   \o ( IF auto
                        THEN << ev("test_manim_script(auto_fixed_script)",
                                   auto_test_result.success, <<>>) >>
                        ELSE <<>> )
         IN IF auto /\ auto_test_result.success
            THEN gen' = [ gen EXCEPT
                            !.pc = "returned",
                            !.tested = tested,
                            !.log = log,
                            !.result = auto_fix_return(script,
                                                       auto_fixed_script) ]
            ELSE gen' = [ next_attempt(
                              gen,
                              gen.history \o << script, test_result.error >>,
                              test_result.error)
                          EXCEPT !.tested = tested, !.log = log ]
    /\ UNCHANGED << appVars, status_resp, layout, mux, audio, auth, db,
                    timing, pair >>

\* Lines 107-136: the model call raises. Overload sleeps, keeps the history
\* and goes on; a malformed request or a failed refinement clears it and
\* goes on; any other error is raised when this is the last attempt.
GenModelRaises ==
    /\ gen.pc = "attempt"
    /\ \E kind \in { "overloaded", "bad_request", "bad_request_other",
                     "bad_request_529", "api" } :
        LET error_message == model_error(gen.attempt, kind)
            ev(op, arg) == [ op |-> op, attempt |-> gen.attempt,
                             ok |-> FALSE, arg |-> arg ]
            raised == ev(IF gen.attempt = 0 THEN "generate_manim_script"
                         ELSE "refine_manim_script", error_message)
        IN  IF Contains(lower(error_message), << "overloaded" >>)
               \/ Contains(error_message, << "529" >>)
            THEN gen' = [ next_attempt(gen, gen.history, error_message)
                          EXCEPT !.log = gen.log \o
                            << raised,
                               ev("sleep",
                                  << ToString(wait_time(gen.attempt)) >>) >> ]
            ELSE IF \/ /\ Contains(error_message, << "Bad Request" >>)
                       /\ Contains(error_message, << "messages" >>)
                    \/ Contains(error_message, << "Failed to refine script" >>)
            THEN gen' = [ next_attempt(gen, <<>>, error_message)
                          EXCEPT !.log = gen.log \o
                                         << raised, ev("clear", <<>>) >> ]
            ELSE IF gen.attempt = gen.max_attempts - 1
            THEN gen' = [ gen EXCEPT
                            !.pc = "raised",
                            !.last_failure = error_message,
                            !.log = gen.log \o << raised >>,
                            !.error = exhausted(gen.max_attempts,
                                                error_message) ]
            ELSE gen' = [ next_attempt(gen, gen.history, error_message)
                          EXCEPT !.log = gen.log \o << raised >> ]
    /\ UNCHANGED << appVars, status_resp, layout, mux, audio, auth, db,
                    timing, pair >>

\* Calls of generate_and_refine_manim_script with every course of its
\* attempts.
SpecGen ==
    Init /\ [][GenCall \/ GenTestPasses \/ GenTestFails
                 \/ GenModelRaises]_vars

\* --------------------------- ManimOptimizer and the linter of the test

\* A script as the pieces the optimizer's and the linter's patterns tell
\* apart: words, and polygons with the coefficients (in tenths) of the unit
\* vectors of their vertices.
Token(kind, text, coefs) == [ kind |-> kind, text |-> text, coefs |-> coefs ]

\* The scripts that are optimized and linted: a construct method with a
\* title (none, not anchored, anchored to the top), the triangle
\* Polygon(ORIGIN, r*RIGHT, u*UP), a right-zone anchor or none, and a
\* self.play or a self.add.
LayoutScripts ==
    { << Token("word", "def construct(self):", <<>>) >>
      \o title
      \o << Token("polygon", "Polygon(ORIGIN,",
                  << [ v |-> r, d |-> "RIGHT" ], [ v |-> u, d |-> "UP" ] >>) >>
      \o anchor
      \o << Token("word", show, <<>>) >> :
        title \in { <<>>,
                    << Token("word", "title = Text(", <<>>) >>,
                    << Token("word", "title = Text(", <<>>),
                       Token("word", "title.to_edge(UP", <<>>) >> },
        r \in { 10, 17, 40 }, u \in { 12, 80 },
        anchor \in { <<>>, << Token("word", ".move_to(RIGHT*3)", <<>>) >> },
        show \in { "self.play", "self.add" } }

\* A clamp pass that halves what is above its ceiling.
fix_coordinate_bounds_halving(script) ==
    [ i \in DOMAIN script |->
        [ script[i] EXCEPT !.coefs =
            [ k \in DOMAIN @ |->
                IF @[k].v > 18 THEN [ @[k] EXCEPT !.v = @ \div 2 ]
                ELSE @[k] ] ] ]

\* _fix_coordinate_bounds: RIGHT and LEFT above 1.8 become 1.8, UP and DOWN
\* above 2.0 become 2.0, side_length above 1.6 becomes 1.6 and radius above
\* 1.3 becomes 1.3.
fix_coordinate_bounds(script) ==
    [ i \in DOMAIN script |->
        [ script[i] EXCEPT !.coefs =
            [ k \in DOMAIN @ |->
                LET ceiling == CASE @[k].d \in { "RIGHT", "LEFT" } -> 18
                                 [] @[k].d \in { "UP", "DOWN" } -> 20
                                 [] @[k].d = "side_length" -> 16
                                 [] OTHER -> 13
                IN  IF @[k].v > ceiling
                    THEN [ @[k] EXCEPT !.v = ceiling ]
                    ELSE @[k] ] ] ]

\* _optimize_geometry_sizes: Polygon(ORIGIN, a*RIGHT, b*UP) becomes
\* Polygon(ORIGIN, 1.0*RIGHT, 1.0*RIGHT + 1.2*UP).
optimize_geometry_sizes(script) ==
    [ i \in DOMAIN script |->
        IF /\ script[i].kind = "polygon"
           /\ Len(script[i].coefs) = 2
           /\ script[i].coefs[1].d = "RIGHT"
           /\ script[i].coefs[2].d = "UP"
        THEN [ script[i] EXCEPT !.coefs =
                 << [ v |-> 10, d |-> "RIGHT" ], [ v |-> 10, d |-> "RIGHT" ],
                    [ v |-> 12, d |-> "UP" ] >> ]
        ELSE script[i] ]

\* The script with piece put in before its first self.play that follows
\* the construct header, when there is one (after_construct), or before its
\* first self.play.
insert_before_play(script, piece, after_construct) ==
    LET plays == { i \in DOMAIN script :
                     /\ script[i].text = "self.play"
                     /\ after_construct
                        => \E j \in 1 .. (i - 1) :
                               script[j].text = "def construct(self):" }
        first == CHOOSE i \in plays : \A j \in plays : i <= j
    IN  IF plays = {}
        THEN script
        ELSE SubSeq(script, 1, first - 1) \o << piece >>
             \o SubSeq(script, first, Len(script))

\* _add_precise_positioning: a script with a geometry constructor and
\* without the text move_to(RIGHT*3) gets the grouping-and-positioning code
\* in front of the first self.play of its construct method.
add_precise_positioning(script) ==
    IF /\ \E i \in DOMAIN script : script[i].kind = "polygon"
       /\ \A i \in DOMAIN script :
              script[i].text \notin { ".move_to(RIGHT*3)", "positioning_code" }
    THEN insert_before_play(script, Token("word", "positioning_code", <<>>),
                            TRUE)
    ELSE script

\* optimize_script: the six passes in order; the spacing and the math
\* rendering passes rewrite arrange, next_to and MathTex calls, which these
\* scripts do not hold, and the boundary validation code goes in front of
\* the first self.play.
optimize_script(script) ==
    insert_before_play(
        add_precise_positioning(
            optimize_geometry_sizes(fix_coordinate_bounds(script))),
        Token("word", "validation_code", <<>>), FALSE)

\* The strings the linter looks for that the lower-cased text of a piece
\* holds.
Mentions(token) ==
    CASE token.kind = "polygon" -> { "polygon" }
      [] token.text = "title = Text(" -> { "title", "text" }
      [] token.text = "title.to_edge(UP" -> { "title", "title.to_edge(up" }
      [] token.text = ".move_to(RIGHT*3)" -> { "right*3" }
      [] token.text = "positioning_code" -> { "title", "text", "right*3" }
      [] token.text = "validation_code" -> { "left" }
      [] OTHER -> {}

\* test_manim_script, lines 772-814: the layout issues of a script that
\* compiles, imports and holds a scene class.
layout_issues(script) ==
    LET content == UNION { Mentions(script[i]) : i \in DOMAIN script }
    IN  ( IF \E i \in DOMAIN script :
                \E k \in DOMAIN script[i].coefs :
                    /\ script[i].coefs[k].d
                         \in { "RIGHT", "UP", "DOWN", "LEFT" }
                    /\ script[i].coefs[k].v > 15
          THEN { "Large coordinate" } ELSE {} )
        \cup ( IF \E i \in DOMAIN script :
                     \E k \in DOMAIN script[i].coefs :
                         /\ script[i].coefs[k].d = "side_length"
                         /\ script[i].coefs[k].v > 15
               THEN { "Large side_length" } ELSE {} )
        \cup ( IF "title.to_edge(up" \notin content /\ "title" \in content
               THEN { "Title not positioned" } ELSE {} )
        \cup ( IF "polygon" \in content /\ "right*3" \notin content
               THEN { "Graphics not positioned" } ELSE {} )
        \cup ( IF /\ "text" \in content
                  /\ content \cap { "to_corner(ul", "left" } = {}
                  /\ "title" \notin content
               THEN { "Text not positioned" } ELSE {} )
        \cup ( IF "polygon" \in content /\ "move_to(origin)" \in content
               THEN { "Graphics at center" } ELSE {} )

\* A script is linted as it came.
LayoutTest ==
    /\ layout.pc = "idle"
    /\ \E script \in LayoutScripts :
           layout' = [ pc |-> "tested", script |-> script,
                       issues |-> layout_issues(script),
                       output |-> script, passes |-> <<>>,
                       output_issues |-> {} ]
    /\ UNCHANGED << appVars, status_resp, gen, mux, audio, auth, db,
                    timing, pair >>

\* The clamp pass, then the anchor pass, or all of optimize_script, and the
\* output is linted again.
LayoutOptimize ==
    /\ layout.pc = "tested"
    /\ \/ layout' = [ layout EXCEPT
                         !.pc = "clamped",
                         !.passes = << "clamp" >>,
                         !.output = fix_coordinate_bounds(@),
                         !.output_issues =
                             layout_issues(fix_coordinate_bounds(layout.output)) ]
       \/ layout' = [ layout EXCEPT
                         !.pc = "optimized",
                         !.passes = << "optimize_script" >>,
                         !.output = optimize_script(@),
                         !.output_issues =
                             layout_issues(optimize_script(layout.output)) ]
    /\ UNCHANGED << appVars, status_resp, gen, mux, audio, auth, db,
                    timing, pair >>

LayoutAnchor ==
    /\ layout.pc = "clamped"
    /\ layout' = [ layout EXCEPT
                      !.pc = "optimized",
                      !.passes = << "clamp", "anchor" >>,
                      !.output = add_precise_positioning(@),
                      !.output_issues =
                          layout_issues(add_precise_positioning(layout.output)) ]
    /\ UNCHANGED << appVars, status_resp, gen, mux, audio, auth, db,
                    timing, pair >>

\* Scripts through the linter, the optimizer and the linter again.
SpecLayout == Init /\ [][LayoutTest \/ LayoutOptimize \/ LayoutAnchor]_vars

\* The optimizer, and its clamp pass alone, run on a script: one with the
\* optimizer's own constructs, or one literal of a direction, a side_length
\* or a radius.
OptimizerRun ==
    /\ layout.pc = "idle"
    /\ \E script \in LayoutScripts \cup
            { << Token("word", "literal", << [ v |-> v, d |-> d ] >>) >> :
                v \in { 5, 13, 14, 16, 17, 18, 19, 20, 21, 45 },
                d \in { "RIGHT", "LEFT", "UP", "DOWN", "side_length",
                        "radius" } } :
           layout' = [ pc |-> "once", script |-> script, runs |-> 1,
                       output |-> optimize_script(script),
                       clamped |-> fix_coordinate_bounds(script),
                       before |-> [ output |-> script, clamped |-> script ] ]
    /\ UNCHANGED << appVars, status_resp, gen, mux, audio, auth, db,
                    timing, pair >>

\* Both are run again on what they gave.
OptimizerRerun ==
    /\ layout.pc = "once"
    /\ layout' = [ layout EXCEPT
                      !.pc = "again",
                      !.runs = @ + 1,
                      !.output = optimize_script(@),
                      !.clamped = fix_coordinate_bounds(@),
                      !.before = [ output |-> layout.output,
                                   clamped |-> layout.clamped ] ]
    /\ UNCHANGED << appVars, status_resp, gen, mux, audio, auth, db,
                    timing, pair >>

\* optimize_script and _fix_coordinate_bounds applied once and twice.
SpecOptimizer == Init /\ [][OptimizerRun \/ OptimizerRerun]_vars

\* ------------------------------------------------- combine_audio_video

\* The durations, in seconds, a mux is called with.
Durations == { 0, 7, 10, 15, 21, 28, 30, 33, 34, 40 }

\* A selection that pads at a ratio of 0.7 as well.
select_remediation_inclusive(given, video_duration, audio_duration) ==
    IF given /\ video_duration # 0 /\ audio_duration # 0
    THEN IF 10 * audio_duration <= 7 * video_duration THEN "pad"
         ELSE IF 10 * audio_duration > 11 * video_duration THEN "extend"
         ELSE "plain"
    ELSE "plain"

\* Lines 173-193: the branch chosen from duration_ratio = audio_duration /
\* video_duration, when video_duration was given and neither duration is
\* zero (`if video_duration and audio_duration`); the plain command else.
select_remediation(given, video_duration, audio_duration) ==
    IF given /\ video_duration # 0 /\ audio_duration # 0
    THEN IF 10 * audio_duration < 7 * video_duration THEN "pad"
         ELSE IF 10 * audio_duration > 11 * video_duration THEN "extend"
         ELSE "plain"
    ELSE "plain"

\* The final ffmpeg command of a branch: its video input, its filter graph
\* and whether it stops at the shortest stream (lines 159-170, 180-192,
\* 226-237 and 241-252).
mux_cmd(branch, extended) ==
    CASE branch = "pad" ->
            [ video |-> "video", filter |-> "apad", shortest |-> FALSE ]
      [] branch = "extend" /\ extended ->
            [ video |-> "extended_video", filter |-> "", shortest |-> TRUE ]
      [] branch = "extend" /\ ~extended ->
            [ video |-> "stream_loop", filter |-> "", shortest |-> TRUE ]
      [] OTHER -> [ video |-> "video", filter |-> "", shortest |-> TRUE ]

\* Lines 140-193: the call; without ffmpeg it raises, else it measures the
\* audio and selects its branch.
MuxSelect ==
    /\ mux.pc = "idle"
    /\ \E given, available \in BOOLEAN,
          video_duration, audio_duration \in Durations :
        LET branch == select_remediation(given, video_duration,
                                         audio_duration)
        IN  mux' = [ pc |-> IF ~available THEN "raised"
                            ELSE IF branch = "extend" THEN "extend"
                            ELSE "run",
                     given |-> given,
                     video_duration |-> video_duration,
                     audio_duration |-> audio_duration,
                     branch |-> IF available THEN branch ELSE "",
                     extends |-> <<>>,
                     cmd |-> IF available /\ branch # "extend"
                             THEN << mux_cmd(branch, FALSE) >> ELSE <<>> ]
    /\ UNCHANGED << appVars, status_resp, gen, layout, audio, auth, db,
                    timing, pair >>

\* Lines 194-262: the freeze-frame extension; when it fails the final
\* command loops the video instead.
MuxExtend ==
    /\ mux.pc = "extend"
    /\ \E extended \in BOOLEAN :
           mux' = [ mux EXCEPT !.pc = "run",
                               !.extends = << extended >>,
                               !.cmd = << mux_cmd("extend", extended) >> ]
    /\ UNCHANGED << appVars, status_resp, gen, layout, audio, auth, db,
                    timing, pair >>

\* Lines 264-278: the final command runs; a non-zero exit raises.
MuxRun ==
    /\ mux.pc = "run"
    /\ \E returncode_zero \in BOOLEAN :
           mux' = [ mux EXCEPT
                      !.pc = IF returncode_zero THEN "done" ELSE "raised" ]
    /\ UNCHANGED << appVars, status_resp, gen, layout, audio, auth, db,
                    timing, pair >>

\* Calls of combine_audio_video over the durations.
SpecMux == Init /\ [][MuxSelect \/ MuxExtend \/ MuxRun]_vars

\* ------------------------------------------- create_synchronized_audio

\* The longest list of narration segments of a call.
MaxSegments == 2

\* A narration segment with the length, in seconds, of the clip the speech
\* service returns for its text.
NarrationSegments ==
    { s \in [ start_time : { 0, 3, 5 }, end_time : { 3, 5, 9 },
              text : { "", "narration" }, clip : { 2, 4 } ] :
        s.start_time < s.end_time }

RECURSIVE max_end_time(_)
\* max(seg["end_time"] for seg in segments), line 415.
max_end_time(segments) ==
    IF Len(segments) = 1 THEN segments[1].end_time
    ELSE LET m == max_end_time(Tail(segments))
         IN  IF segments[1].end_time > m THEN segments[1].end_time ELSE m

RECURSIVE sorted_by_start(_)
\* sorted(segments, key=lambda x: x["start_time"]), line 532 (stable).
sorted_by_start(segments) ==
    IF segments = <<>> THEN <<>>
    ELSE LET rest == sorted_by_start(Tail(segments))
             before == SelectSeq(rest, LAMBDA x :
                                   x.start_time < segments[1].start_time)
             after == SelectSeq(rest, LAMBDA x :
                                  x.start_time >= segments[1].start_time)
         IN  before \o << segments[1] >> \o after

RECURSIVE timed_duration(_, _, _)
\* The length of the clips laid end to end, each preceded by silence for
\* the gap between the end time of the segment before it (0 for the first)
\* and its start time; a silence that could not be made is left out
\* (lines 535-586 and 643-661).
timed_duration(segments, current_time, silence_made) ==
    IF segments = <<>> THEN 0
    ELSE LET seg == segments[1]
             silence == IF seg.start_time > current_time /\ silence_made
                        THEN seg.start_time - current_time ELSE 0
         IN  silence + seg.clip
               + timed_duration(Tail(segments), seg.end_time, silence_made)

\* Lines 323-384: the call keeps the segments with text, and without any it
\* raises; a clip is synthesized and written for each of them, and a
\* synthesis that fails raises with the clips written so far left behind.
AudioCall ==
    /\ audio.pc = "idle"
    /\ \E n \in 1..MaxSegments :
       \E narration_segments \in [ 1..n -> NarrationSegments ] :
        LET valid_segments == SelectSeq(narration_segments,
                                        LAMBDA s : s.text # "")
        IN  \E spoken \in 0 .. Len(valid_segments) :
            audio' = [ pc |-> IF spoken < Len(valid_segments)
                                 \/ valid_segments = <<>>
                              THEN "raised" ELSE "base",
                       narration_segments |-> narration_segments,
                       segments |-> valid_segments,
                       total_duration |-> <<>>,
                       tier |-> "",
                       final |-> <<>>,
                       ran |-> <<>>,
                       in_try |-> TRUE,
                       files |-> { << "segment", i >> : i \in 1 .. spoken } ]
    /\ UNCHANGED << appVars, status_resp, gen, layout, mux, auth, db,
                    timing, pair >>

\* A base track whose failure is followed by create_simple_timed_audio.
AudioBase_simple_timed ==
    /\ audio.pc = "base"
    /\ \E outcome \in { "ok", "failed", "raised" } :
           audio' = [ audio EXCEPT
                        !.total_duration =
                            << max_end_time(audio.segments) + 2 >>,
                        !.ran = Append(@, [ tier |-> "base",
                                            outcome |-> outcome ]),
                        !.in_try = outcome # "raised",
                        !.files = IF outcome = "ok"
                                  THEN @ \cup { << "base_", 0 >> }
                                  ELSE @,
                        !.pc = IF outcome = "ok" THEN "overlay"
                               ELSE "simple_timed" ]
    /\ UNCHANGED << appVars, status_resp, gen, layout, mux, auth, db,
                    timing, pair >>

\* Lines 414-441: the silent base track of max_end_time + 2.0 seconds; when
\* ffmpeg exits non-zero the segments are concatenated, and an exception
\* goes to the handler of line 516, which calls create_simple_timed_audio.
AudioBase ==
    /\ audio.pc = "base"
    /\ \E outcome \in { "ok", "failed", "raised" } :
           audio' = [ audio EXCEPT
                        !.total_duration =
                            << max_end_time(audio.segments) + 2 >>,
                        !.ran = Append(@, [ tier |-> "base",
                                            outcome |-> outcome ]),
                        !.in_try = outcome # "raised",
                        !.files = IF outcome = "ok"
                                  THEN @ \cup { << "base_", 0 >> }
                                  ELSE @,
                        !.pc = CASE outcome = "ok" -> "overlay"
                                 [] outcome = "failed" -> "concat"
                                 [] OTHER -> "simple_timed" ]
    /\ UNCHANGED << appVars, status_resp, gen, layout, mux, auth, db,
                    timing, pair >>

\* Lines 443-518: every clip delayed to its start and mixed onto the base
\* (amix duration=first), the result moved to the output path and the base
\* removed; a non-zero exit goes to create_simple_timed_audio, inside the
\* try block, and an exception to the handler that calls it. Back in
\* create_synchronized_audio the clips are removed (lines 389-394).
AudioOverlay ==
    /\ audio.pc = "overlay"
    /\ \E outcome \in { "ok", "failed", "raised" } :
           audio' = IF outcome = "ok"
                    THEN [ audio EXCEPT
                             !.pc = "returned",
                             !.tier = "overlay",
                             !.final = audio.total_duration,
                             !.ran = Append(@, [ tier |-> "overlay",
                                                 outcome |-> outcome ]),
                             !.files = { << "synced_audio", 0 >> } ]
                    ELSE [ audio EXCEPT
                             !.pc = "simple_timed",
                             !.in_try = outcome # "raised",
                             !.ran = Append(@, [ tier |-> "overlay",
                                                 outcome |-> outcome ]) ]
    /\ UNCHANGED << appVars, status_resp, gen, layout, mux, auth, db,
                    timing, pair >>

\* create_simple_timed_audio, lines 521-630: silences and clips of the
\* segments sorted by start, concatenated from a list file, and the list
\* and the silences removed; a failure, with them left, goes to
\* concatenate_audio_segments_simple.
AudioSimpleTimed ==
    /\ audio.pc = "simple_timed"
    /\ \E returncode_zero, silence_made \in BOOLEAN :
           audio' = IF returncode_zero
                    THEN [ audio EXCEPT
                             !.pc = "returned",
                             !.tier = "simple_timed",
                             !.final = << timed_duration(
                                            sorted_by_start(audio.segments),
                                            0, silence_made) >>,
                             !.ran = Append(@, [ tier |-> "simple_timed",
                                                 outcome |-> "ok" ]),
                             !.files = ( @ \ { << "segment", i >> :
                                                 i \in DOMAIN audio.segments } )
                                       \cup { << "synced_audio", 0 >> } ]
                    ELSE [ audio EXCEPT
                             !.pc = "concat",
                             !.ran = Append(@, [ tier |-> "simple_timed",
                                                 outcome |-> "failed" ]),
                             !.files = @ \cup { << "sequence_", 0 >> } \cup
                                       IF silence_made
                                       THEN { << "silence_", 0 >> }
                                       ELSE {} ]
    /\ UNCHANGED << appVars, status_resp, gen, layout, mux, auth, db,
                    timing, pair >>

\* concatenate_audio_segments_simple, lines 633-729: clips with their gaps
\* in one filter graph; when that fails the clips alone are concatenated
\* from a list file, and the exit code of that last command is not read. An
\* exception is raised on: inside the try block of combine_audio_segments
\* its handler calls create_simple_timed_audio, elsewhere
\* create_synchronized_audio raises.
AudioConcat ==
    /\ audio.pc = "concat"
    /\ \E outcome \in { "timed", "plain", "nothing", "raised" } :
        LET clips == { << "segment", i >> : i \in DOMAIN audio.segments }
            filter(o) == [ tier |-> "concat", outcome |-> o ]
            plain(o) == [ tier |-> "plain", outcome |-> o ]
        IN  audio' =
              CASE outcome = "timed" ->
                     [ audio EXCEPT
                         !.pc = "returned", !.tier = "concat",
                         !.final = << timed_duration(audio.segments,
                                                     0, TRUE) >>,
                         !.ran = Append(@, filter("ok")),
                         !.files = ( @ \ clips )
                                   \cup { << "synced_audio", 0 >> } ]
                [] outcome = "plain" ->
                     [ audio EXCEPT
                         !.pc = "returned", !.tier = "plain",
                         !.final = << timed_duration(audio.segments,
                                                     0, FALSE) >>,
                         !.ran = @ \o << filter("failed"), plain("ok") >>,
                         !.files = ( @ \ clips )
                                   \cup { << "synced_audio", 0 >> } ]
                [] outcome = "nothing" ->
                     [ audio EXCEPT
                         !.pc = "returned", !.tier = "plain",
                         !.ran = @ \o << filter("failed"),
                                         plain("failed") >>,
                         !.files = @ \ clips ]
                [] OTHER ->
                     [ audio EXCEPT
                         !.pc = IF audio.in_try THEN "simple_timed"
                                ELSE "raised",
                         !.in_try = FALSE,
                         !.ran = Append(@, filter("raised")) ]
    /\ UNCHANGED << appVars, status_resp, gen, layout, mux, auth, db,
                    timing, pair >>

\* Calls of create_synchronized_audio over the segment lists.
SpecAudio ==
    Init /\ [][AudioCall \/ AudioBase \/ AudioOverlay \/ AudioSimpleTimed
                  \/ AudioConcat]_vars

\* ------------------------------------------------------ middleware/auth

\* Authorization headers of a request: absent, or a text with the words
\* str.split() finds in it, the first of them by its characters.
Headers ==
    { [ given |-> FALSE, text |-> "",
        words |-> <<>> ],
      [ given |-> TRUE, text |-> "",
        words |-> <<>> ],
      [ given |-> TRUE, text |-> " ",
        words |-> <<>> ],
      [ given |-> TRUE, text |-> "Bearer",
        words |-> << << "B", "e", "a", "r", "e", "r" >> >> ],
      [ given |-> TRUE, text |-> "Bearer good extra",
        words |-> << << "B", "e", "a", "r", "e", "r" >>, "good", "extra" >> ],
      [ given |-> TRUE, text |-> "Basic good",
        words |-> << << "B", "a", "s", "i", "c" >>, "good" >> ],
      [ given |-> TRUE, text |-> "Bearer good",
        words |-> << << "B", "e", "a", "r", "e", "r" >>, "good" >> ],
      [ given |-> TRUE, text |-> "bearer good",
        words |-> << << "b", "e", "a", "r", "e", "r" >>, "good" >> ],
      [ given |-> TRUE, text |-> "BEARER good",
        words |-> << << "B", "E", "A", "R", "E", "R" >>, "good" >> ],
      [ given |-> TRUE, text |-> "Bearer expired",
        words |-> << << "B", "e", "a", "r", "e", "r" >>, "expired" >> ] }

\* get_supabase_client() and supabase.auth.get_user(token): the client
\* cannot be configured, the call raises, or it answers with a user or
\* without one.
get_user(token, backend) ==
    CASE backend = "resolves" /\ token = "good" ->
            [ raised |-> FALSE,
              user |-> << [ user_id |-> "uuid-1",
                            email |-> "user@example.com",
                            user_metadata |-> "" ] >> ]
      [] backend = "no_user" -> [ raised |-> FALSE, user |-> None ]
      [] OTHER -> [ raised |-> TRUE, user |-> None ]

\* Line 115: the flag read from the environment (unset reads "false").
BYPASS_AUTH(env) == lower(env) = << "t", "r", "u", "e" >>

\* Lines 122-126 and 130-134: the identity of the development stubs.
TestUser ==
    [ user_id |-> "test-user-id", email |-> "test@example.com",
      user_metadata |-> "Test User" ]

\* optional_auth without its try block.
optional_auth_unguarded(authorization, backend) ==
    IF ~authorization.given \/ authorization.text = ""
    THEN [ raised |-> "", user |-> None ]
    ELSE IF Len(authorization.words) # 2
    THEN [ raised |-> "ValueError", user |-> None ]
    ELSE IF lower(authorization.words[1]) # << "b", "e", "a", "r", "e", "r" >>
    THEN [ raised |-> "", user |-> None ]
    ELSE LET r == get_user(authorization.words[2], backend)
         IN  [ raised |-> IF r.raised THEN "Exception" ELSE "",
               user |-> r.user ]

\* Lines 74-111: optional_auth; every exception of the try block is logged
\* and None returned.
optional_auth(authorization, backend) ==
    IF ~authorization.given \/ authorization.text = ""
    THEN [ raised |-> "", user |-> None ]
    ELSE IF Len(authorization.words) # 2
    THEN [ raised |-> "", user |-> None ]
    ELSE IF lower(authorization.words[1]) # << "b", "e", "a", "r", "e", "r" >>
    THEN [ raised |-> "", user |-> None ]
    ELSE [ raised |-> "",
           user |-> get_user(authorization.words[2], backend).user ]

\* Required authentication that is never stubbed.
get_current_user_unstubbed(bypass, authorization, backend) ==
    IF \/ Len(authorization.words) < 2
       \/ lower(authorization.words[1]) # << "b", "e", "a", "r", "e", "r" >>
    THEN [ raised |-> "HTTPBearer", user |-> None ]
    ELSE LET r == get_user(IF Len(authorization.words) = 2
                           THEN authorization.words[2] ELSE "good extra",
                           backend)
         IN  IF r.raised \/ r.user = None
             THEN [ raised |-> "401", user |-> None ]
             ELSE [ raised |-> "", user |-> r.user ]

\* Lines 19-71 and 117-134: get_current_user over verify_token; the
\* HTTPBearer scheme rejects a request without bearer credentials, a token
\* that does not resolve raises 401; with the bypass both functions are the
\* stub.
get_current_user(bypass, authorization, backend) ==
    IF bypass THEN [ raised |-> "", user |-> << TestUser >> ]
    ELSE IF \/ Len(authorization.words) < 2
            \/ lower(authorization.words[1])
                 # << "b", "e", "a", "r", "e", "r" >>
    THEN [ raised |-> "HTTPBearer", user |-> None ]
    ELSE LET r == get_user(IF Len(authorization.words) = 2
                           THEN authorization.words[2] ELSE "good extra",
                           backend)
         IN  IF r.raised \/ r.user = None
             THEN [ raised |-> "401", user |-> None ]
             ELSE [ raised |-> "", user |-> r.user ]

\* A request to /generate (optional_auth) or to /auth/me and /auth/verify
\* (get_current_user) in a process started with the environment env; the
\* endpoint runs with current_user when the dependency did not raise.
AuthRequest ==
    /\ auth.pc = "idle"
    /\ \E env \in { None, << "f", "a", "l", "s", "e" >>,
                     << "t", "r", "u", "e" >>,
                     << "T", "r", "u", "e" >>, << "T", "R", "U", "E" >>,
                     << "1" >>, << "y", "e", "s" >> },
          endpoint \in { "/generate", "/auth/me" },
          authorization \in Headers,
          backend \in { "resolves", "no_user", "raises", "unconfigured" } :
        LET bypass == BYPASS_AUTH(IF env = None
                                  THEN << "f", "a", "l", "s", "e" >>
                                  ELSE env)
            r == IF endpoint = "/generate"
                 THEN optional_auth(authorization, backend)
                 ELSE get_current_user(bypass, authorization, backend)
        IN  auth' = [ pc |-> IF r.raised = "" THEN "endpoint" ELSE "raised",
                      env |-> env,
                      endpoint |-> endpoint,
                      authorization |-> authorization,
                      backend |-> backend,
                      raised |-> r.raised,
                      current_user |-> r.user ]
    /\ UNCHANGED << appVars, status_resp, gen, layout, mux, audio, db,
                    timing, pair >>

\* Requests through the two authentication dependencies.
SpecAuth == Init /\ [][AuthRequest]_vars

\* ------------------------------- timing extraction and timed narration

MaxTimingSegments == 2

\* The keys the two functions read from the items of a model reply.
TimingKeys == { "start_time", "end_time", "description" }
NarrationKeys == { "start_time", "end_time", "text" }

\* What json.loads gives for a reply: a list of objects (each with some of
\* the keys) or a number, which is no list.
ParsedReplies(keys, texts) ==
    LET item == [ keys : { keys, keys \ { "end_time" }, {} },
                  text : texts,
                  start_time : { 0, 5 }, end_time : { 0, 8 } ]
    IN  { [ is_list |-> FALSE, items |-> << >> ] } \cup
        { [ is_list |-> TRUE, items |-> l ] :
            l \in UNION { [ 1..n -> item ] : n \in 0 .. MaxTimingSegments } }

\* A model call: it fails, or its text is no JSON, or it parses.
ModelReplies(keys, texts) ==
    [ kind : { "call_failed", "unparseable" },
      value : { [ is_list |-> FALSE, items |-> << >> ] } ]
    \cup [ kind : { "parsed" }, value : ParsedReplies(keys, texts) ]

\* len(text.split())
RECURSIVE words(_)
words(text) ==
    IF text = << >> THEN 0
    ELSE IF Head(text) = " " THEN words(Tail(text))
    ELSE IF Len(text) > 1 /\ text[2] # " " THEN words(Tail(text))
    ELSE 1 + words(Tail(text))

\* "Educational animation explaining the concept step by step."
GenericNarration ==
    << "E", "d", "u", "c", "a", "t", "i", "o", "n", "a", "l", " ", "a", "n",
       "i", "m", "a", "t", "i", "o", "n", " ", "e", "x", "p", "l", "a", "i",
       "n", "i", "n", "g", " ", "t", "h", "e", " ", "c", "o", "n", "c", "e",
       "p", "t", " ", "s", "t", "e", "p", " ", "b", "y", " ", "s", "t", "e",
       "p", "." >>

\* The three fixed segments of lines 201-205 and 209-213.
FallbackTiming ==
    [ is_list |-> TRUE,
      items |-> [ i \in 1..3 |-> [ keys |-> TimingKeys, text |-> << >>,
                                   start_time |-> 10 * (i - 1),
                                   end_time |-> 10 * i ] ] ]

\* extract_animation_timing, lines 177-213: the parsed reply as it is, the
\* fixed segments when the call fails or the reply is no JSON.
extract_animation_timing(reply) ==
    IF reply.kind = "parsed" THEN reply.value ELSE FallbackTiming

\* Lines 259-260: timing_info reads start_time, end_time and description of
\* every timing segment, before the try block.
timing_info_raises(timing_segments) ==
    \/ ~ timing_segments.is_list
    \/ \E i \in DOMAIN timing_segments.items :
          ~ ( TimingKeys \subseteq timing_segments.items[i].keys )

\* Lines 284-303: one cleaned segment, i counted from 0.
cleaned_segment(segment, i) ==
    LET get(key, value, default) ==
            IF key \in segment.keys THEN value ELSE default
        text == strip(get("text", segment.text, << >>))
        start_time == get("start_time", segment.start_time, 0)
        end_time == get("end_time", segment.end_time, 10)
        said == IF Len(text) < 3
                THEN
                     << "A", "n", "i", "m", "a", "t", "i", "o", "n", " ",
                        "s", "e", "g", "m", "e", "n", "t", " " >> \o
                     << ToString(i + 1), "." >>
                ELSE text
    IN  [ start_time |-> start_time,
          end_time |-> IF end_time <= start_time THEN start_time + 3
                       ELSE end_time,
          text |-> said,
          words |-> words(said) ]

\* generate_timed_narration, lines 262-320, once timing_info is built: the
\* cleaned segments of a parsed list; one generic segment of ten seconds
\* per timing segment when the reply is no JSON, and of 30 seconds when the
\* call fails or the parsed reply is no list.
generate_timed_narration(timing_segments, reply) ==
    LET generic(end_time) == << [ start_time |-> 0, end_time |-> end_time,
                                  text |-> GenericNarration, words |-> 8 ] >>
    IN  CASE reply.kind = "unparseable" ->
               generic(Len(timing_segments.items) * 10)
          [] reply.kind = "parsed" /\ reply.value.is_list ->
               [ i \in DOMAIN reply.value.items |->
                   cleaned_segment(reply.value.items[i], i - 1) ]
          [] OTHER -> generic(30)

\* Line 332 of app.py: the timing segments of the script.
ExtractTiming ==
    /\ timing.pc = "idle"
    /\ \E reply \in ModelReplies(TimingKeys, { << >> }) :
           timing' = [ pc |-> "extracted",
                       asked |-> reply.kind,
                       timing_segments |-> extract_animation_timing(reply),
                       narration_segments |-> << >> ]
    /\ UNCHANGED << appVars, status_resp, gen, layout, mux, audio, auth,
                    db, pair >>

\* Lines 335-339 of app.py: the narration for those segments.
TimedNarration ==
    /\ timing.pc = "extracted"
    /\ \E reply \in ModelReplies(NarrationKeys,
                                  { << >>, << "a", " ", "b", " " >>,
                                    << " ", "a", "b", "c" >> }) :
           timing' =
             IF timing_info_raises(timing.timing_segments)
             THEN [ timing EXCEPT !.pc = "raised" ]
             ELSE [ timing EXCEPT
                      !.pc = "returned",
                      !.asked = reply.kind,
                      !.narration_segments =
                          generate_timed_narration(
                              timing.timing_segments, reply) ]
    /\ UNCHANGED << appVars, status_resp, gen, layout, mux, audio, auth,
                    db, pair >>

SpecTiming == Init /\ [][ExtractTiming \/ TimedNarration]_vars

\* ------------------------------------ two pipelines, side by side

\* os.path.basename of final_audio_path (line 387 of audio_processor.py),
\* kept without the animation id.
synced_audio_name_shared(animation_id) == << "synced_audio.mp3" >>

\* os.path.basename of final_audio_path, line 387 of audio_processor.py.
synced_audio_name(animation_id) ==
    << ToString(animation_id), "_synced_audio.mp3" >>

\* The local paths generate_video_background and the services it calls write
\* or remove for one generation, and its database writes, in the order of
\* the code, the three sync methods one after the other.
PipelineOps(animation_id) ==
    LET file(op, path) ==
            [ op |-> op, path |-> path, step |-> 0, message |-> << >> ]
        write(path) == file("write", path)
        remove(path) == file("remove", path)
        step(n, message) == [ op |-> "add_step_status", path |-> << >>,
                              step |-> n, message |-> message ]
        id == ToString(animation_id)
        output == synced_audio_name(animation_id)
        video == << id, ".mp4" >>
    IN  << step(2, MSG_SCRIPT),
           write(<< "temp_scripts/", id, ".py" >>),
           step(3, MSG_RENDER),
           write(<< "temp_output/", id >>),
           step(4, MSG_AUDIO),
           write(<< "temp_output/", id, "_segment_", "0", ".mp3" >>),
           write(<< "temp_output/base_" >> \o output),
           write(<< "temp_output/final_" >> \o output),
           remove(<< "temp_output/base_" >> \o output),
           write(<< "temp_output/silence_", "1", "_" >> \o output
                 \o << ".mp3" >>),
           write(<< "temp_output/sequence_" >> \o output \o << ".txt" >>),
           write(<< "temp_output/concat_" >> \o output \o << ".txt" >>),
           write(<< "temp_output/" >> \o output),
           remove(<< "temp_output/", id, "_segment_", "0", ".mp3" >>),
           write(<< "temp_output/", id, "_audio.mp3" >>),
           write(<< "temp_output/" >> \o video \o << "_subtitles.srt" >>),
           write(<< "temp_output/", id, "_adjusted_audio.mp3" >>),
           remove(<< "temp_output/", id, "_audio.mp3" >>),
           write(<< "temp_output/" >> \o video \o << "_extended.mp4" >>),
           write(<< "generated_videos/", id, ".mp4" >>),
           remove(<< "temp_output/", id, "_adjusted_audio.mp3" >>),
           file("update_video_url", << >>),
           step(5, MSG_DONE),
           remove(<< "generated_videos/", id, ".mp4" >>),
           remove(<< "temp_scripts/", id, ".py" >>) >>

\* Lines 207-246 of app.py, twice: two generations with their video and
\* status records, and a pipeline scheduled for each.
PairSchedule ==
    /\ pair.pc = "idle"
    /\ LET first == create_video_record(<< >>, generate_animation_id(1),
                                        << "p" >>, None)
           both == create_video_record(first, generate_animation_id(2),
                                       << "p" >>, None)
           started(st, p) == create_status_record(
                                 st, both[p].id, MSG_STARTED, 1,
                                 timestamped_prompt(<< "p" >>))
       IN  pair' = [ pc |-> "running",
                     videos |-> both,
                     status |-> started(started(<< >>, 1), 2),
                     at |-> [ p \in 1..2 |-> 0 ],
                     touched |-> [ p \in 1..2 |-> {} ],
                     actor |-> 0 ]
    /\ UNCHANGED << appVars, status_resp, gen, layout, mux, audio, auth, db,
                    timing >>

\* One pipeline takes its next step while the other waits: the next file
\* or database operation, or an exception, after which lines 428-439 write
\* the failure status and remove the paths of cleanup_temp_files.
PairStep ==
    /\ pair.pc = "running"
    /\ \E p \in 1..2 :
       LET animation_id == generate_animation_id(p)
           id == ToString(animation_id)
           ops == PipelineOps(animation_id)
           next == ops[pair.at[p] + 1]
           temp_paths == { << "temp_scripts/", id, ".py" >>,
                           << "temp_output/", id >>,
                           << "temp_output/", id, "_audio.mp3" >>,
                           << "temp_output/", id, "_synced_audio.mp3" >> }
       IN  /\ pair.at[p] < Len(ops)
           /\ \/ pair' = [ pair EXCEPT
                             !.actor = p,
                             !.at[p] = @ + 1,
                             !.touched[p] =
                                 IF next.op \in { "write", "remove" }
                                 THEN @ \cup { next.path } ELSE @,
                             !.status =
                                 IF next.op = "add_step_status"
                                 THEN add_step_status(
                                          @, pair.videos[p].id, next.step,
                                          next.message,
                                          timestamped_prompt(<< "p" >>))
                                 ELSE @,
                             !.videos =
                                 IF next.op = "update_video_url"
                                 THEN update_video_url(
                                          @, animation_id,
                                          get_public_url(animation_id))
                                 ELSE @ ]
              \/ pair' = [ pair EXCEPT
                             !.actor = p,
                             !.at[p] = Len(ops),
                             !.touched[p] = @ \cup temp_paths,
                             !.status = update_build_status(
                                            @, pair.videos[p].id,
                                            failure_status(ERR_RENDER)) ]
    /\ UNCHANGED << appVars, status_resp, gen, layout, mux, audio, auth, db,
                    timing >>

SpecPair == Init /\ [][PairSchedule \/ PairStep]_vars

\* ---------------------------------------------------- reading the state

\* The status history of a VideoRecord, in creation order.
History(uuid) == SelectSeq(status, LAMBDA row : row.video_uuid = uuid)

Steps(h) == [ i \in DOMAIN h |-> h[i].step ]

\* The outcomes, in order, of the calls of op made for request r.
Outcomes(r, op, step) ==
    LET made == SelectSeq(calls[r],
                          LAMBDA c : c.op = op /\ c.step = step)
    IN  [ i \in DOMAIN made |-> made[i].ok ]

Succeeded(r, op, step) == TRUE \in { Outcomes(r, op, step)[i] :
                                       i \in DOMAIN Outcomes(r, op, step) }

Failed(r, op, step) == FALSE \in { Outcomes(r, op, step)[i] :
                                     i \in DOMAIN Outcomes(r, op, step) }

Ended(r) == ppc[r] \in {"completed", "failed"}

\* The url column of the VideoRecord of request r is url.
UrlIs(r, url) ==
    /\ VideoRows(videos, generate_animation_id(r)) # {}
    /\ \A i \in VideoRows(videos, generate_animation_id(r)) :
           videos[i].video_url = url

TasksFor(r) ==
    { i \in DOMAIN tasks : tasks[i].animation_id = generate_animation_id(r) }

\* --------------------------------------------------------------- claims

\* C1: a POST /generate with a valid prompt whose two persistence calls
\* succeed has created exactly one VideoRecord, exactly one step-1
\* StatusRecord for it, and has scheduled exactly one pipeline, with that
\* animation id and that database UUID.
C1_OneRecordOneStatusOneTask ==
    \A r \in Reqs :
        ( /\ hpc[r] = "returned"
          /\ validate_prompt(req[r].prompt)
          /\ Succeeded(r, "create_video_record", 0)
          /\ Succeeded(r, "create_status_record", 1) )
        => /\ Cardinality(VideoRows(videos, generate_animation_id(r))) = 1
           /\ \A i \in VideoRows(videos, generate_animation_id(r)) :
                  videos[i].id = db_uuid[r]
           /\ Cardinality({ i \in StatusRows(status, db_uuid[r]) :
                              status[i].step = 1 }) = 1
           /\ History(db_uuid[r])[1].step = 1
           /\ Cardinality(TasksFor(r)) = 1
           /\ \A i \in TasksFor(r) : tasks[i].db_uuid = db_uuid[r]

C1_Witness ==
    \E r \in Reqs :
        /\ hpc[r] = "returned"
        /\ resp[r].code = 200
        /\ Succeeded(r, "create_status_record", 1)
        /\ ppc[r] = "completed"

\* The premise of C2: a run without audio whose script generation, render
\* (first or retried) and upload succeeded, and which has ended.
C2_Run(r) ==
    /\ Ended(r)
    /\ ~req[r].include_audio
    /\ Succeeded(r, "generate_and_refine_manim_script", 0)
    /\ Succeeded(r, "execute_manim_script", 0)
    /\ Succeeded(r, "upload_video_to_supabase", 0)

LastRow(r) == History(db_uuid[r])[Len(History(db_uuid[r]))]

C3_Run(r) ==
    /\ Ended(r)
    /\ Outcomes(r, "execute_manim_script", 0) = << FALSE, FALSE >>

\* C3 as stated: such a run never calls the upload, leaves video_url unset,
\* and its status history holds an entry containing the renderer's message.
C3_AsStated ==
    \A r \in Reqs :
        C3_Run(r)
        => /\ Outcomes(r, "upload_video_to_supabase", 0) = <<>>
           /\ UrlIs(r, None)
           /\ \E i \in StatusRows(status, db_uuid[r]) :
                  Contains(status[i].build_status, ERR_RENDER)

\* C3, amended: such a run never calls the upload and leaves video_url
\* unset; when the update_build_status write is stored (it is swallowed when
\* it fails, and matches nothing when no StatusRecord was stored), every
\* StatusRecord of the VideoRecord holds the renderer's failure message.
C3_NoUploadAndMessageWhenStored ==
    \A r \in Reqs :
        C3_Run(r)
        => /\ Outcomes(r, "upload_video_to_supabase", 0) = <<>>
           /\ generate_animation_id(r) \notin bucket
           /\ UrlIs(r, None)
           /\ Succeeded(r, "update_build_status", 0)
              => /\ StatusRows(status, db_uuid[r]) # {}
                 /\ \A i \in StatusRows(status, db_uuid[r]) :
                        Contains(status[i].build_status, ERR_RENDER)

C3_Witness ==
    \E r \in Reqs :
        /\ C3_Run(r)
        /\ Succeeded(r, "update_build_status", 0)
        /\ Len(History(db_uuid[r])) = 3

\* The premise of C4: an audio-enabled run, not subtitle_overlay, that went
\* through every step up to the completion status.
C4_FullRun(r) ==
    /\ req[r].include_audio
    /\ req[r].sync_method # "subtitle_overlay"
    /\ Outcomes(r, "add_step_status", 5) # <<>>

NonDecreasing(s) == \A i, j \in DOMAIN s : i <= j => s[i] <= s[j]

\* C4 as stated: the StatusRecords of a full run carry the steps 1, 2, 3, 4,
\* 5 in that order, and step numbers never decrease in creation order.
C4_AsStated ==
    \A r \in Reqs :
        /\ C4_FullRun(r) => Steps(History(db_uuid[r])) = << 1, 2, 3, 4, 5 >>
        /\ db_uuid[r] # None => NonDecreasing(Steps(History(db_uuid[r])))

\* The steps whose status write was stored, in the order 1..5.
StoredSteps(r) ==
    SelectSeq(<< 1, 2, 3, 4, 5 >>,
              LAMBDA n : IF n = 1
                         THEN Succeeded(r, "create_status_record", 1)
                         ELSE Succeeded(r, "add_step_status", n))

\* C4, amended: the StatusRecords of a full run carry, in creation order,
\* those of the steps 1, 2, 3, 4, 5 whose status write was stored (a failed
\* write is swallowed and leaves no row): all five when every write is
\* stored; and in every run the step numbers never decrease in creation
\* order.
C4_StoredStepsInOrder ==
    \A r \in Reqs :
        /\ C4_FullRun(r) => Steps(History(db_uuid[r])) = StoredSteps(r)
        /\ ( /\ C4_FullRun(r)
             /\ Succeeded(r, "create_status_record", 1)
             /\ \A n \in 2 .. 5 : Succeeded(r, "add_step_status", n) )
           => Steps(History(db_uuid[r])) = << 1, 2, 3, 4, 5 >>
        /\ db_uuid[r] # None => NonDecreasing(Steps(History(db_uuid[r])))

C4_Witness ==
    \E r \in Reqs :
        /\ C4_FullRun(r)
        /\ ppc[r] = "completed"
        /\ Steps(History(db_uuid[r])) = << 1, 2, 3, 4, 5 >>

\* C5 as stated: when the creation of the VideoRecord or of its first
\* StatusRecord failed, the request is answered with a 500 and no pipeline
\* is scheduled for it.
C5_AsStated ==
    \A r \in Reqs :
        ( \/ Failed(r, "create_video_record", 0)
          \/ Failed(r, "create_status_record", 1) )
        => /\ TasksFor(r) = {}
           /\ hpc[r] = "returned" => resp[r].code = 500

\* The premise of C6: validate_prompt was called on the prompt of request r
\* and rejected it, and the request has been answered.
C6_Rejected(r) ==
    /\ hpc[r] = "returned"
    /\ db_uuid[r] # None
    /\ ~validate_prompt(req[r].prompt)

\* C6 as stated: a rejected prompt has a validation-failure status recorded
\* against the VideoRecord, is answered with a 400 and schedules no pipeline.
C6_AsStated ==
    \A r \in Reqs :
        C6_Rejected(r)
        => /\ \E i \in StatusRows(status, db_uuid[r]) :
                  status[i].build_status = MSG_INVALID
           /\ resp[r].code = 400
           /\ TasksFor(r) = {}

\* C6, amended: a prompt rejected by validate_prompt is answered with a 400
\* and never schedules a pipeline; the validation-failure status is written
\* over every existing StatusRecord of the VideoRecord when the
\* update_build_status write is stored (a failed write is swallowed, and it
\* matches nothing when the first StatusRecord was not stored).
C6_RejectedIs400NoTask ==
    \A r \in Reqs :
        /\ C6_Rejected(r)
           => /\ resp[r].code = 400
              /\ TasksFor(r) = {}
              /\ ppc[r] = "none"
              /\ Succeeded(r, "update_build_status", 0)
                 => /\ StatusRows(status, db_uuid[r]) # {}
                    /\ \A i \in StatusRows(status, db_uuid[r]) :
                           status[i].build_status = MSG_INVALID
        /\ req[r].prompt \in { PROMPT_EMPTY, PROMPT_BLANK, PROMPT_SHORT,
                               PROMPT_HACK, PROMPT_VIRUS }
           => TasksFor(r) = {}

C6_Witness ==
    \E r \in Reqs :
        /\ C6_Rejected(r)
        /\ req[r].prompt = PROMPT_HACK
        /\ resp[r].code = 400
        /\ \E i \in StatusRows(status, db_uuid[r]) :
               status[i].build_status = MSG_INVALID

\* C7: the GenerationResponse (status "processing", empty video_url, the
\* video_id of the new VideoRecord) is produced before any step of the
\* scheduled pipeline has run: a pipeline that has taken a step, and one
\* that has ended in success or failure, finds the response already given,
\* and a pipeline that never moves does not hold it back.
C7_ResponseBeforePipeline ==
    \A r \in Reqs :
        /\ ppc[r] \notin {"none", "scheduled"}
           => /\ hpc[r] = "returned"
              /\ resp[r] = AnimationResponse(generate_animation_id(r))
        /\ resp[r].code = 200
           => /\ resp[r].status = "processing"
              /\ resp[r].video_url = ""
              /\ \E i \in DOMAIN videos :
                     /\ videos[i].id = db_uuid[r]
                     /\ videos[i].video_id = resp[r].video_id
        /\ hpc[r] = "scheduled" => ppc[r] = "scheduled"

C7_Witness ==
    \E r \in Reqs :
        /\ ppc[r] = "failed"
        /\ resp[r] = AnimationResponse(generate_animation_id(r))

\* C8 as stated: a pipeline that caught an exception has recorded a failure
\* status carrying the exception text on the status rows of the VideoRecord,
\* has run cleanup_temp_files and has ended.
C8_AsStated ==
    \A r \in Reqs :
        ppc[r] = "failed"
        => /\ \E i \in StatusRows(status, db_uuid[r]) :
                  Contains(status[i].build_status, err[r])
           /\ Succeeded(r, "cleanup_temp_files", 0)

\* C8, amended: an exception at any step is caught: the pipeline calls
\* update_build_status with the exception text, which overwrites the message
\* of every StatusRecord of the VideoRecord when the write is stored (a
\* failed write is swallowed and leaves the rows as they were), runs
\* cleanup_temp_files for the animation id, and ends.
C8_FailureCaughtAnnotatedCleaned ==
    \A r \in Reqs :
        /\ ppc[r] = "failed"
           => /\ err[r] # None
              /\ Len(Outcomes(r, "update_build_status", 0)) = 1
              /\ Outcomes(r, "cleanup_temp_files", 0) = << TRUE >>
              /\ files[r] \cap { "script", "render_dir", "tts_audio",
                                 "synced_audio" } = {}
              /\ Succeeded(r, "update_build_status", 0)
                 => /\ StatusRows(status, db_uuid[r]) # {}
                    /\ \A i \in StatusRows(status, db_uuid[r]) :
                           /\ status[i].build_status = failure_status(err[r])
                           /\ Contains(status[i].build_status, err[r])
        /\ ppc[r] = "except" => err[r] # None
        /\ ppc[r] \in { "none", "scheduled", "prepare", "script", "step3",
                        "render", "fix", "retry", "step4", "timing",
                        "narration", "subtitles", "subtitles_again",
                        "adjust", "mux", "move", "upload", "update_url",
                        "step5", "cleanup", "except", "completed", "failed" }

C8_Witness ==
    \E r \in Reqs :
        /\ ppc[r] = "failed"
        /\ err[r] = ERR_COMBINE
        /\ "script" \notin files[r]
        /\ Succeeded(r, "update_build_status", 0)

\* C9: the video_url of a VideoRecord changes only from unset to the public
\* URL of its own video id, and only once the storage bucket holds the file
\* of that video id (a successful upload); rows are never removed, so a URL
\* once set is never changed again.
C9_UrlSetOnceFromUpload ==
    [][ \A i \in DOMAIN videos :
            /\ i \in DOMAIN videos'
            /\ videos'[i].video_id = videos[i].video_id
            /\ videos'[i].video_url # videos[i].video_url
               => /\ videos[i].video_url = None
                  /\ videos'[i].video_url = get_public_url(videos[i].video_id)
                  /\ videos[i].video_id \in bucket
                  /\ \E r \in Reqs :
                         /\ generate_animation_id(r) = videos[i].video_id
                         /\ Succeeded(r, "upload_video_to_supabase", 0) ]_vars

C9_Witness ==
    \E i \in DOMAIN videos :
        /\ videos[i].video_url = get_public_url(videos[i].video_id)
        /\ videos[i].video_id \in bucket

\* C10 as stated: a StatusRecord, once written, is never deleted and never
\* changed: neither its step number nor its message.
C10_AsStated ==
    [][ \A i \in DOMAIN status :
            /\ i \in DOMAIN status'
            /\ status'[i] = status[i] ]_vars

\* C10, amended: a StatusRecord, once written, is never deleted and its step
\* number never changes; status writes add rows, except update_build_status
\* (the validation failure of /generate and the failure handler of the
\* pipeline), which overwrites the message of every existing StatusRecord of
\* that VideoRecord in place.
C10_RowsKeptStepsKept ==
    [][ \A i \in DOMAIN status :
            /\ i \in DOMAIN status'
            /\ status'[i].step = status[i].step
            /\ status'[i].video_uuid = status[i].video_uuid
            /\ status'[i].prompt = status[i].prompt
            /\ status'[i].build_status # status[i].build_status
               => \E r \in Reqs :
                      /\ db_uuid[r] = status[i].video_uuid
                      /\ \/ /\ hpc[r] = "validate"
                            /\ status'[i].build_status = MSG_INVALID
                         \/ /\ ppc[r] = "except"
                            /\ status'[i].build_status = failure_status(err[r])
                      /\ \A j \in StatusRows(status, db_uuid[r]) :
                             status'[j].build_status = status'[i].build_status
      ]_vars

C10_Witness ==
    \E r \in Reqs :
        /\ ppc[r] = "failed"
        /\ Len(History(db_uuid[r])) >= 2
        /\ \A i \in StatusRows(status, db_uuid[r]) :
               status[i].build_status = failure_status(err[r])

\* C11 as stated: GET /video/{video_id}/status answers 404 whenever no
\* VideoRecord exists for the external id asked for (rows are never deleted,
\* so none existed when it was asked), and otherwise answers with the
\* database id, the current URL and the status history of that VideoRecord.
C11_AsStated ==
    /\ ( /\ status_resp.asked # None
         /\ VideoRows(videos, status_resp.asked) = {} )
       => status_resp.code = 404
    /\ status_resp.code = 200
       => \E i \in VideoRows(videos, status_resp.asked) :
              /\ status_resp.database_id = videos[i].id
              /\ status_resp.video_url \in { None, videos[i].video_url }
              /\ Len(status_resp.status) <= Len(History(videos[i].id))

\* The pipeline step a call belongs to: 1 script generation, 2 render (with
\* its point-fix), 3 narration, 4 the final video (mux, subtitle overlay or
\* move), 5 upload, 6 the final URL and status write; 0 for the other calls.
StepOf(c) ==
    CASE c.op = "generate_and_refine_manim_script" -> 1
      [] c.op \in { "execute_manim_script",
                    "fix_manim_script_from_error" } -> 2
      [] c.op \in { "extract_animation_timing", "generate_timed_narration",
                    "create_synchronized_audio",
                    "extract_narration_from_script", "generate_tts_audio",
                    "get_audio_duration", "adjust_audio_duration" } -> 3
      [] c.op \in { "combine_audio_video", "add_subtitles_to_video",
                    "shutil.move" } -> 4
      [] c.op = "upload_video_to_supabase" -> 5
      [] c.op = "update_video_url" -> 6
      [] c.op = "add_step_status" /\ c.step = 5 -> 6
      [] OTHER -> 0

\* Some call of step n made for request r before its i-th call succeeded.
DoneBefore(r, i, n) ==
    \E k \in 1 .. (i - 1) : StepOf(calls[r][k]) = n /\ calls[r][k].ok

\* C12: within one pipeline the steps occur in the order script generation,
\* render, narration, mux, upload, final status write: a call of a later step
\* is never followed by a call of an earlier one, the render starts only
\* after the script was generated, narration and the final video only after
\* a render succeeded, the mux only after the narration, the final write only
\* after the upload succeeded, and the upload only after the final video was
\* produced (the file is there when the upload starts).
C12_StepsInOrder ==
    \A r \in Reqs :
        /\ \A i, j \in DOMAIN calls[r] :
               ( i < j /\ StepOf(calls[r][i]) > 0 /\ StepOf(calls[r][j]) > 0 )
               => StepOf(calls[r][i]) <= StepOf(calls[r][j])
        /\ \A i \in DOMAIN calls[r] :
               /\ StepOf(calls[r][i]) \in 2 .. 4 => DoneBefore(r, i, 1)
               /\ StepOf(calls[r][i]) \in 3 .. 5 => DoneBefore(r, i, 2)
               /\ calls[r][i].op = "combine_audio_video"
                  => DoneBefore(r, i, 3)
               /\ StepOf(calls[r][i]) = 5 => DoneBefore(r, i, 4)
               /\ StepOf(calls[r][i]) = 6 => DoneBefore(r, i, 5)
        /\ ppc[r] = "upload" => "final_video" \in files[r]
        /\ generate_animation_id(r) \in bucket
           => DoneBefore(r, Len(calls[r]) + 1, 4)

C12_Witness ==
    \E r \in Reqs :
        /\ ppc[r] = "completed"
        /\ \A n \in 1 .. 6 : DoneBefore(r, Len(calls[r]) + 1, n)

\* C13 as stated: a renderer failure triggers exactly one
\* fix_manim_script_from_error call and exactly one further
\* execute_manim_script call; the renderer runs at most twice and the
\* point-fix at most once per run, and a second renderer failure fails the
\* run.
C13_AsStated ==
    \A r \in Reqs :
        /\ Len(Outcomes(r, "execute_manim_script", 0)) <= 2
        /\ Len(Outcomes(r, "fix_manim_script_from_error", 0)) <= 1
        /\ ( Ended(r) /\ Failed(r, "execute_manim_script", 0) )
           => /\ Len(Outcomes(r, "fix_manim_script_from_error", 0)) = 1
              /\ Len(Outcomes(r, "execute_manim_script", 0)) = 2
        /\ ( /\ Ended(r)
             /\ Outcomes(r, "execute_manim_script", 0) = << FALSE, FALSE >> )
           => ppc[r] = "failed"

\* C13, amended: a renderer failure triggers exactly one
\* fix_manim_script_from_error call and, when that call returns a fixed
\* script, exactly one further execute_manim_script call (a point-fix that
\* raises ends the run as failed without a retry); the renderer runs at most
\* twice and the point-fix at most once per run, never without a renderer
\* failure before it, and a second renderer failure fails the run with the
\* renderer's error.
C13_OneFixOneRetry ==
    \A r \in Reqs :
        LET renders == Outcomes(r, "execute_manim_script", 0)
            fixes == Outcomes(r, "fix_manim_script_from_error", 0)
        IN  /\ Len(renders) <= 2
            /\ Len(fixes) <= 1
            /\ fixes # <<>> => renders # <<>> /\ ~renders[1]
            /\ Len(renders) = 2 => ~renders[1] /\ fixes = << TRUE >>
            /\ ( Ended(r) /\ renders # <<>> /\ ~renders[1] )
               => /\ Len(fixes) = 1
                  /\ fixes[1] => Len(renders) = 2
                  /\ ~fixes[1]
                     => /\ Len(renders) = 1
                        /\ ppc[r] = "failed"
                        /\ err[r] = ERR_FIX
            /\ ( Ended(r) /\ renders = << FALSE, FALSE >> )
               => ppc[r] = "failed" /\ err[r] = ERR_RENDER

C13_Witness ==
    \E r \in Reqs :
        /\ ppc[r] = "completed"
        /\ Outcomes(r, "execute_manim_script", 0) = << FALSE, TRUE >>
        /\ Outcomes(r, "fix_manim_script_from_error", 0) = << TRUE >>

\* C14: generate_and_refine_manim_script ends in one of two ways: it returns
\* a script, and then test_manim_script reported success on that very script
\* and never a failure, and nothing is raised; or it raises, and then nothing
\* is returned.
C14_ReturnsOnlyTestedScripts ==
    /\ gen.pc = "returned"
       => /\ << gen.result, TRUE >> \in gen.tested
          /\ << gen.result, FALSE >> \notin gen.tested
          /\ gen.error = None
    /\ gen.pc = "raised" => gen.result = None /\ gen.error # None
    /\ gen.pc = "attempt"
       => /\ gen.result = None /\ gen.error = None
          /\ gen.attempt < gen.max_attempts
    /\ gen.pc \in { "idle", "attempt", "returned", "raised" }

C14_Witness ==
    /\ gen.pc = "returned"
    /\ gen.result = << "auto_fixed", 2 >>
    /\ << << "script", 2 >>, FALSE >> \in gen.tested

\* C15 as stated: when generate_and_refine_manim_script has used up its
\* max_attempts attempts, the error it raises names the attempt count and
\* the message of the last failure (the last test failure or the last
\* exception), whichever way the last attempt failed.
C15_AsStated ==
    gen.pc = "raised"
    => /\ Contains(gen.error, << ToString(gen.max_attempts), "attempts" >>)
       /\ gen.last_failure # None
       /\ Contains(gen.error, gen.last_failure)

\* The script of C16: it holds Polygon(ORIGIN, 4*RIGHT, 8*UP) and no
\* right-zone anchor.
C16_Script ==
    /\ layout.pc # "idle"
    /\ \E i \in DOMAIN layout.script :
           /\ layout.script[i].kind = "polygon"
           /\ layout.script[i].coefs =
                  << [ v |-> 40, d |-> "RIGHT" ], [ v |-> 80, d |-> "UP" ] >>
    /\ \A i \in DOMAIN layout.script :
           layout.script[i].text # ".move_to(RIGHT*3)"

\* C16 as stated: such a script fails the layout check with a 'Large
\* coordinate' or a 'Graphics not positioned' issue, and the output of the
\* optimizer's clamp-and-anchor passes on it (and of the whole
\* optimize_script) passes the same check.
C16_AsStated ==
    C16_Script
    => /\ layout.issues
             \cap { "Large coordinate", "Graphics not positioned" } # {}
       /\ layout.pc = "optimized" => layout.output_issues = {}

\* The branch the ratio audio_duration / video_duration asks for.
C17_ByRatio ==
    IF 10 * mux.audio_duration < 7 * mux.video_duration THEN "pad"
    ELSE IF 10 * mux.audio_duration > 11 * mux.video_duration THEN "extend"
    ELSE "plain"

\* What each branch does: pad the audio with a filter graph; extend the
\* video and loop it only if the extension failed; the plain shortest-stream
\* command without a filter graph.
C17_BranchDoes ==
    /\ mux.branch = "pad" /\ mux.cmd # <<>>
       => mux.cmd[1].filter = "apad" /\ mux.cmd[1].video = "video"
    /\ mux.branch = "extend" /\ mux.cmd # <<>>
       => /\ Len(mux.extends) = 1
          /\ mux.cmd[1].filter = ""
          /\ mux.cmd[1].video = IF mux.extends[1] THEN "extended_video"
                                 ELSE "stream_loop"
    /\ mux.branch = "plain"
       => mux.cmd = << [ video |-> "video", filter |-> "",
                         shortest |-> TRUE ] >>
    /\ ( mux.cmd # <<>> /\ mux.cmd[1].video = "stream_loop" )
       => mux.branch = "extend" /\ mux.extends = << FALSE >>
    /\ mux.branch # "extend" => mux.extends = <<>>

\* C17 as stated: combine_audio_video selects its branch from the ratio
\* audio_duration / video_duration: pad below 0.7, extend (looping only if
\* the extension fails) above 1.1, the plain mux in between.
C17_AsStated ==
    ( /\ mux.pc # "idle" /\ mux.branch # ""
      /\ mux.given /\ mux.video_duration # 0 )
    => mux.branch = C17_ByRatio /\ C17_BranchDoes

\* C17, amended: when video_duration is given and neither duration is zero,
\* the branch is selected from the ratio as stated (pad below 0.7; extend
\* above 1.1, looping only if the extension fails; the plain shortest-stream
\* mux without a filter graph for ratios in [0.7, 1.1]); when video_duration
\* is not given or a duration is zero, the plain mux is used whatever the
\* ratio.
C17_BranchFromRatioWhenKnown ==
    ( mux.pc # "idle" /\ mux.branch # "" )
    => /\ C17_BranchDoes
       /\ mux.branch =
             IF /\ mux.given /\ mux.video_duration # 0
                /\ mux.audio_duration # 0
             THEN C17_ByRatio ELSE "plain"

C17_Witness ==
    /\ mux.pc = "done"
    /\ mux.given
    /\ mux.video_duration = 30
    /\ mux.audio_duration = 40
    /\ mux.extends = << FALSE >>
    /\ mux.cmd[1].video = "stream_loop"

\* C18 as stated: create_synchronized_audio builds its base track with
\* duration max(segment end times) + 2.0, and the track it returns lasts at
\* least max(segment end times), whichever assembly tier produced it.
C18_AsStated ==
    audio.pc = "returned"
    => /\ audio.total_duration = << max_end_time(audio.segments) + 2 >>
       /\ Len(audio.final) = 1
       /\ audio.final[1] >= max_end_time(audio.segments)

\* C19: optional_auth never raises, and for an absent header, a header
\* that is not exactly a scheme and a token, a scheme other than 'bearer' in
\* any case, a backend or configuration error, or a token that resolves to
\* no user it returns no user and /generate runs anonymously.
C19_OptionalAuthNeverRaises ==
    ( auth.pc # "idle" /\ auth.endpoint = "/generate" )
    => /\ auth.raised = ""
       /\ auth.pc = "endpoint"
       /\ ( \/ ~auth.authorization.given
            \/ Len(auth.authorization.words) # 2
            \/ auth.authorization.words[1]
                  \notin { << "b", "e", "a", "r", "e", "r" >>,
                           << "B", "e", "a", "r", "e", "r" >>,
                           << "B", "E", "A", "R", "E", "R" >> }
            \/ auth.backend # "resolves"
            \/ auth.authorization.words[2] # "good" )
          => auth.current_user = None

C19_Witness ==
    /\ auth.pc = "endpoint"
    /\ auth.endpoint = "/generate"
    /\ auth.authorization.text = "Bearer good extra"
    /\ auth.backend = "unconfigured"
    /\ auth.current_user = None

\* C20 as stated: with BYPASS_AUTH enabled required and optional auth both
\* return the fixed test identity unconditionally; with it not enabled
\* neither ever returns the test identity.
C20_AsStated ==
    auth.pc # "idle"
    => IF auth.env \in { << "t", "r", "u", "e" >>, << "T", "r", "u", "e" >>,
                         << "T", "R", "U", "E" >> }
       THEN auth.raised = "" /\ auth.current_user = << TestUser >>
       ELSE auth.current_user # << TestUser >>

\* C20, amended: with BYPASS_AUTH enabled required auth is replaced by a
\* stub that unconditionally returns the fixed test identity, while
\* optional auth is not replaced; optional auth, and required auth when the
\* flag is not enabled, never return the test identity.
C20_BypassStubsRequiredAuth ==
    auth.pc # "idle"
    => IF auth.env \in { << "t", "r", "u", "e" >>, << "T", "r", "u", "e" >>,
                         << "T", "R", "U", "E" >> }
          /\ auth.endpoint = "/auth/me"
       THEN auth.raised = "" /\ auth.current_user = << TestUser >>
       ELSE auth.current_user # << TestUser >>

C20_Witness ==
    /\ auth.pc = "endpoint"
    /\ auth.env = << "T", "R", "U", "E" >>
    /\ auth.endpoint = "/auth/me"
    /\ ~auth.authorization.given
    /\ auth.backend = "unconfigured"
    /\ auth.current_user = << TestUser >>

RECURSIVE C21_Reverse(_)
C21_Reverse(rows) ==
    IF rows = <<>> THEN <<>>
    ELSE C21_Reverse(Tail(rows)) \o << rows[1] >>

\* C21 as stated: get_videos_by_user(user_name) returns exactly the
\* VideoRecords whose user_name matches, newest first: in reverse order of
\* their creation, whatever identifiers the database assigned (taken for
\* the calls the backend answers).
C21_AsStated ==
    ( db.listed # <<>> /\ db.listed[1].ok )
    => db.listed[1].videos
         = C21_Reverse(SelectSeq(db.listed[1].table, LAMBDA row :
                         row.user_name = db.listed[1].user_name))

\* C22 as stated: every script generate_and_refine_manim_script passes to
\* test_manim_script, from the generation call or from a refinement call,
\* has been passed through ManimOptimizer.optimize_script before.
C22_AsStated ==
    gen.pc # "idle"
    => \A i \in DOMAIN gen.log :
           gen.log[i].op = "test_manim_script"
           => \E j \in 1 .. i - 1 :
                  /\ gen.log[j].op = "optimize_script"
                  /\ gen.log[j].attempt = gen.log[i].attempt

\* The test of the script of an attempt failed, on one of the last two
\* attempts, with a message that mentions geometry framing.
C23_Due(i) ==
    /\ gen.log[i].op = "test_manim_script"
    /\ ~gen.log[i].ok
    /\ Contains(gen.log[i].arg, << "geometry framing" >>)
    /\ gen.log[i].attempt >= gen.max_attempts - 2

\* C23: on the last two attempts a test failure that mentions 'geometry
\* framing' is followed at once, before any model call, by one
\* auto_fix_large_coordinates; a fixed script that differs is tested, and
\* when it passes it is returned there and then, in the same attempt; the
\* auto-fix is tried nowhere else, so never on an earlier attempt.
C23_AutoFixOnLastTwoAttempts ==
    gen.pc # "idle"
    => \A i \in DOMAIN gen.log :
        /\ C23_Due(i)
           => /\ i < Len(gen.log)
              /\ gen.log[i + 1].op = "auto_fix_large_coordinates"
              /\ Cardinality({ j \in DOMAIN gen.log :
                     /\ gen.log[j].op = "auto_fix_large_coordinates"
                     /\ gen.log[j].attempt = gen.log[i].attempt }) = 1
        /\ gen.log[i].op = "auto_fix_large_coordinates"
           => /\ i > 1 /\ C23_Due(i - 1)
              /\ gen.log[i].attempt >= gen.max_attempts - 2
              /\ gen.log[i].ok
                 => /\ i < Len(gen.log)
                    /\ gen.log[i + 1].op
                         = "test_manim_script(auto_fixed_script)"
                    /\ gen.log[i + 1].ok
                       => /\ i + 1 = Len(gen.log)
                          /\ gen.pc = "returned"
                          /\ gen.result
                               = << "auto_fixed", gen.log[i].attempt >>
                          /\ gen.attempt = gen.log[i].attempt
              /\ ~gen.log[i].ok
                 => \/ i = Len(gen.log)
                    \/ gen.log[i + 1].op = "refine_manim_script"

C23_Witness ==
    /\ gen.pc = "returned"
    /\ gen.max_attempts = 3
    /\ gen.result = << "auto_fixed", 1 >>
    /\ gen.log[3].op = "test_manim_script"
    /\ gen.log[3].attempt = 0
    /\ Contains(gen.log[3].arg, << "geometry framing" >>)
    /\ gen.log[4].op = "refine_manim_script"

C25_AsStated ==
    layout.pc = "again" => layout.output = layout.before.output

\* The ceiling of a literal of the clamp pass, in tenths.
C26_Ceiling(d) ==
    CASE d \in { "RIGHT", "LEFT" } -> 18
      [] d \in { "UP", "DOWN" } -> 20
      [] d = "side_length" -> 16
      [] d = "radius" -> 13

C27_Next(n) ==
    IF n < Len(audio.ran) THEN audio.ran[n + 1].tier ELSE ""

\* What C27 says of every tier but the base track.
C27_BelowTheBase ==
    \A n \in DOMAIN audio.ran :
        LET t == audio.ran[n] IN
        /\ t.tier = "overlay" /\ t.outcome # "ok"
           => audio.pc = "simple_timed" \/ C27_Next(n) = "simple_timed"
        /\ t.tier = "simple_timed" /\ t.outcome # "ok"
           => audio.pc = "concat" \/ C27_Next(n) = "concat"
        /\ t.tier = "concat" /\ t.outcome = "failed"
           => C27_Next(n) = "plain"
        /\ t.tier = "overlay" => n > 1 /\ audio.ran[n - 1].tier = "base"
        /\ t.tier = "plain"
           => /\ audio.ran[n - 1] = [ tier |-> "concat",
                                      outcome |-> "failed" ]
              /\ n = Len(audio.ran)
        /\ t.outcome = "ok"
           => n = Len(audio.ran) \/ t.tier = "base"

\* C27 as stated: the tiers are tried in a fixed descending order: any
\* failure of the base-track-plus-overlay approach, a failure to create the
\* base track too, falls back to create_simple_timed_audio, a failure there
\* to concatenate_audio_segments_simple, and a failure of its timed filter
\* to a plain concatenation; a lower tier runs only after the tier above it
\* failed.
C27_AsStated ==
    audio.pc \notin { "idle", "raised" }
    => /\ C27_BelowTheBase
       /\ \A n \in DOMAIN audio.ran :
            LET t == audio.ran[n] IN
            /\ t.tier = "base" /\ t.outcome # "ok"
               => audio.pc = "simple_timed" \/ C27_Next(n) = "simple_timed"
            /\ t.tier = "simple_timed"
               => audio.ran[n - 1].tier \in { "base", "overlay" }
            /\ t.tier = "concat"
               => audio.ran[n - 1] = [ tier |-> "simple_timed",
                                      outcome |-> "failed" ]

\* C27, amended: a non-zero exit of the overlay, or an exception in the
\* combined approach, falls back to create_simple_timed_audio, but a
\* non-zero exit of the base-track command falls back straight to
\* concatenate_audio_segments_simple; a failure of create_simple_timed_audio
\* falls back to concatenate_audio_segments_simple, and a failure of its
\* timed filter to a plain concatenation. A tier below the base track runs
\* only after a tier failed right before it, and
\* create_simple_timed_audio runs after concatenate_audio_segments_simple
\* only when that one raised inside the try block of the combined approach.
C27_TiersFallBack ==
    audio.pc \notin { "idle", "raised" }
    => /\ C27_BelowTheBase
       /\ \A n \in DOMAIN audio.ran :
            LET t == audio.ran[n] IN
            /\ t.tier = "base" /\ t.outcome = "raised"
               => audio.pc = "simple_timed" \/ C27_Next(n) = "simple_timed"
            /\ t.tier = "base" /\ t.outcome = "failed"
               => audio.pc = "concat" \/ C27_Next(n) = "concat"
            /\ t.tier = "base" => n = 1
            /\ t.tier = "simple_timed"
               => \/ /\ audio.ran[n - 1].tier \in { "base", "overlay" }
                     /\ audio.ran[n - 1].outcome # "ok"
                  \/ /\ audio.ran[n - 1] = [ tier |-> "concat",
                                              outcome |-> "raised" ]
                     /\ \A k \in 1 .. n - 1 :
                            audio.ran[k].outcome # "raised" \/ k = n - 1
            /\ t.tier = "concat"
               => \/ audio.ran[n - 1] = [ tier |-> "simple_timed",
                                          outcome |-> "failed" ]
                  \/ audio.ran[n - 1] = [ tier |-> "base",
                                          outcome |-> "failed" ]

C27_Witness ==
    /\ audio.pc = "returned"
    /\ Len(audio.ran) = 5
    /\ audio.ran[1] = [ tier |-> "base", outcome |-> "failed" ]
    /\ audio.ran[2] = [ tier |-> "concat", outcome |-> "raised" ]
    /\ audio.ran[3].tier = "simple_timed"
    /\ audio.ran[5] = [ tier |-> "plain", outcome |-> "ok" ]

\* C28 as stated: when the media tool exits non-zero in every tier of the
\* assembly, create_synchronized_audio raises instead of returning a path.
C28_AsStated ==
    ( /\ audio.pc # "idle"
      /\ audio.ran # <<>>
      /\ \A n \in DOMAIN audio.ran : audio.ran[n].outcome = "failed"
      /\ audio.ran[Len(audio.ran)].tier = "plain" )
    => audio.pc = "raised"

\* C29 as stated: when create_synchronized_audio returns, whichever tier
\* made the track, no clip, base_, final_, silence_, sequence_ or concat_
\* file is left.
C29_AsStated ==
    audio.pc = "returned" => audio.files \subseteq { << "synced_audio", 0 >> }

\* C30 as stated: after a pipeline run has ended in failure, no local
\* artifact of its animation id is left: script, renderer scratch
\* directory, intermediate audio and partial final video are all removed.
C30_AsStated ==
    \A r \in Reqs : ppc[r] = "failed" => files[r] = {}

\* C31 as stated: after a pipeline run has ended successfully, the served
\* final video, the scratch script, the renderer scratch directory and
\* every intermediate audio file of the generation are gone, whichever
\* sync path ran and without audio too.
C31_AsStated ==
    \A r \in Reqs : ppc[r] = "completed" => files[r] = {}

\* C32 as stated: every narration segment that generate_timed_narration
\* returns, on the normal path and on both fallback paths and for any list
\* of timing segments, an empty one too, ends after it starts and has a
\* text of at least 3 characters.
C32_AsStated ==
    timing.pc = "returned"
    => \A i \in DOMAIN timing.narration_segments :
         /\ timing.narration_segments[i].end_time
              > timing.narration_segments[i].start_time
         /\ Len(timing.narration_segments[i].text) >= 3

\* C33 as stated: for any model reply and any model-call failure,
\* extract_animation_timing and generate_timed_narration return a segment
\* list and do not raise.
C33_AsStated ==
    timing.pc # "raised"

\* The calls of request r to one of the operations ops.
C34_Calls(r, ops) ==
    SelectSeq(calls[r], LAMBDA c : c.op \in ops /\ c.step \in { 0, 4 })

\* C34: the narration work follows include_audio and sync_method. Without
\* audio there is no status step 4, no narration, speech or mux call, and
\* the rendered video is moved to the served directory; with
\* subtitle_overlay the subtitles are burned in and combine_audio_video is
\* never called; with any other sync method combine_audio_video is called
\* once, in a run that completes, and never more.
C34_NarrationFollowsRequest ==
    \A r \in Reqs :
        LET mux_calls == Len(C34_Calls(r, { "combine_audio_video" }))
            step4 == SelectSeq(calls[r], LAMBDA c : c.step = 4)
        IN  /\ ~ req[r].include_audio
               => /\ step4 = << >>
                  /\ C34_Calls(r, { "extract_animation_timing",
                                    "generate_timed_narration",
                                    "create_synchronized_audio",
                                    "extract_narration_from_script",
                                    "generate_tts_audio",
                                    "add_subtitles_to_video",
                                    "adjust_audio_duration",
                                    "combine_audio_video" }) = << >>
                  /\ ppc[r] = "completed" => Succeeded(r, "shutil.move", 0)
            /\ req[r].include_audio
               => /\ Outcomes(r, "shutil.move", 0) = << >>
                  /\ IF req[r].sync_method = "subtitle_overlay"
                     THEN /\ mux_calls = 0
                          /\ ppc[r] = "completed"
                             => Succeeded(r, "add_subtitles_to_video", 0)
                     ELSE /\ mux_calls <= 1
                          /\ ppc[r] = "completed" => mux_calls = 1

C34_Witness ==
    \E r \in Reqs :
        /\ ppc[r] = "completed"
        /\ req[r].include_audio
        /\ req[r].sync_method = "timing_analysis"
        /\ Outcomes(r, "combine_audio_video", 0) = << TRUE >>

\* C35: when every external call returns or fails, every scheduled pipeline
\* reaches a terminal state, completed or failed.
C35_ScheduledPipelineEnds ==
    \A r \in Reqs : ( ppc[r] = "scheduled" ) ~> Ended(r)

C35_Witness ==
    \E r \in Reqs :
        /\ Ended(r)
        /\ Outcomes(r, "execute_manim_script", 0) = << FALSE, FALSE >>
        /\ Succeeded(r, "fix_manim_script_from_error", 0)

\* C36: two pipelines with distinct animation ids and database UUIDs are
\* independent under any interleaving: the local paths one writes or
\* removes are none of the other's, and a step of one, its failure status
\* too, leaves the VideoRecord and the StatusRecords of the other as they
\* were.
C36_PipelinesIndependent ==
    [][ pair.pc = "running"
        => /\ pair'.touched[1] \cap pair'.touched[2] = {}
           /\ \A p \in 1..2 :
                LET other == pair.videos[3 - p].id
                    of_other(st) ==
                        SelectSeq(st, LAMBDA row : row.video_uuid = other)
                IN  pair'.actor = p
                    => /\ of_other(pair'.status) = of_other(pair.status)
                       /\ pair'.videos[3 - p] = pair.videos[3 - p] ]_vars

C36_Witness ==
    /\ pair.pc = "running"
    /\ pair.videos[1].id # pair.videos[2].id
    /\ pair.videos[1].video_id # pair.videos[2].video_id
    /\ pair.at[1] = Len(PipelineOps(generate_animation_id(1)))
    /\ pair.videos[1].video_url # None
    /\ pair.at[2] = Len(PipelineOps(generate_animation_id(2)))
    /\ \E i \in DOMAIN pair.status :
          /\ pair.status[i].video_uuid = pair.videos[2].id
          /\ pair.status[i].build_status = failure_status(ERR_RENDER)
    /\ pair.touched[1] # {}
    /\ pair.touched[2] # {}

\* C37 as stated: in every reachable state a completion (step 5)
\* StatusRecord exists for a VideoRecord only if the video_url of that
\* VideoRecord has been set.
C37_AsStated ==
    \A r \in Reqs :
        ( \E i \in StatusRows(status, db_uuid[r]) : status[i].step = 5 )
        => \E v \in VideoRows(videos, generate_animation_id(r)) :
               videos[v].video_url # None

\* C38 as stated: in every reachable state a VideoRecord whose status rows
\* carry the pipeline's failure message has an unset video_url.
C38_AsStated ==
    \A r \in Reqs :
        ( \E i \in StatusRows(status, db_uuid[r]) :
              status[i].build_status = failure_status(err[r]) )
        => UrlIs(r, None)

\* The model calls of the run so far, as positions of its log.
C39_ModelCalls ==
    { i \in DOMAIN gen.log :
        gen.log[i].op \in { "generate_manim_script", "refine_manim_script" } }

\* C39: one run makes at most max_attempts model calls through
\* generate_manim_script and refine_manim_script, whatever the mix of test
\* failures and error classes, every failure using up its attempt;
\* generate_manim_script is called on attempt 0 only, so that every later
\* candidate comes from refine_manim_script.
C39_ModelCallsWithinAttempts ==
    gen.pc # "idle"
    => /\ Cardinality(C39_ModelCalls) <= gen.max_attempts
       /\ \A i \in C39_ModelCalls :
            /\ gen.log[i].attempt < gen.max_attempts
            /\ gen.log[i].op = "generate_manim_script"
               <=> gen.log[i].attempt = 0
            /\ \A j \in C39_ModelCalls :
                  i < j => gen.log[i].attempt < gen.log[j].attempt

C39_Witness ==
    /\ gen.pc = "raised"
    /\ gen.max_attempts = 4
    /\ Cardinality(C39_ModelCalls) = 4
    /\ gen.log[1].op = "generate_manim_script"
    /\ ~ gen.log[1].ok
    /\ Contains(gen.log[1].arg, << "overloaded" >>)
    /\ \E i, j, k \in C39_ModelCalls :
          /\ gen.log[i].op = "refine_manim_script" /\ gen.log[i].ok
          /\ gen.log[j].op = "refine_manim_script" /\ ~ gen.log[j].ok
          /\ Contains(gen.log[j].arg, << "Bad Request" >>)
          /\ gen.log[k].op = "refine_manim_script" /\ ~ gen.log[k].ok
          /\ Contains(gen.log[k].arg, << "Failed to refine script" >>)

\* C40 as stated: when test_manim_script rejects a candidate for a finding
\* of its layout linter on one of the last two attempts,
\* auto_fix_large_coordinates is tried on that candidate before the next
\* model call.
C40_AsStated ==
    gen.pc # "idle"
    => \A i \in DOMAIN gen.log :
         ( /\ gen.log[i].op = "test_manim_script"
           /\ ~ gen.log[i].ok
           /\ Contains(gen.log[i].arg, << "Layout issues:" >>)
           /\ gen.log[i].attempt >= gen.max_attempts - 2
           /\ i < Len(gen.log) )
         => gen.log[i + 1].op = "auto_fix_large_coordinates"

====
